---- MODULE Spec2Model ----
(***************************************************************************)
(* Model of the Redis cache action: the restore phase (index.ts), the save *)
(* phase (post.ts), key scoping and key scanning (redis/operations.ts) and *)
(* handler selection (compression/factory.ts).                             *)
(*                                                                         *)
(* Strings of the program are sequences of one-character strings, so that  *)
(* concatenation, split/join, endsWith and the default sort order of       *)
(* Array.prototype.sort are computed, not assumed.  The empty string is    *)
(* <<>>.  The decimal string of a number n is the one-element sequence     *)
(* <<n>>, which parseInt reads back; parseInt of the empty string is NaN.  *)
(***************************************************************************)
EXTENDS Integers, Sequences, FiniteSets, TLC

VARIABLES
    env,            \* process.env: GITHUB_REPOSITORY, GITHUB_RUN_ID
    inputs,         \* the action inputs of the job (core.getInput)
    store,          \* the Redis/Valkey key space: store key -> value
    pc,             \* position of the job: restore phase, then save phase
    cacheData,      \* restore: the buffer fetched so far (Null when none)
    matchedKey,     \* restore: local matchedKey
    cacheHit,       \* restore: local cacheHit
    idx,            \* restore: index of the restore key being tried
    latestKey,      \* restore: sortedKeys[0] of the current pattern
    pendingErr,     \* message of the error propagating to catch ("" if none)
    handler,        \* the compression handler selected by the phase
    tempFile,       \* the phase's temporary archive exists on disk
    tempSize,       \* size in bytes of the temporary archive
    outputs,        \* core.setOutput: name -> value
    savedState,     \* core.saveState / core.getState: name -> string
    failed,         \* core.setFailed was called
    warned,         \* core.warning was called by the save phase
    saveFailed,     \* core.setFailed was called by the save phase
    restoreOutcome, \* which result the restore phase recorded
    saveOutcome,    \* how the save phase ended
    saveError,      \* message the save phase's catch block received
    restoredData,   \* the bytes handed to extract() when it succeeded
    saveCfg,        \* save: the configuration read back with getState
    job,            \* "first" job of the workflow, or a "later" one
    uploaded,       \* the entry an earlier save verified and that still exists
    sel,            \* a process calling handler selection: its inputs, the
                    \* detection cache and state, and the results returned
    ar,             \* a handler at work: the paths, the archive and output
                    \* file of compress(), the target directory of extract()
    conn,           \* createRedisClient(): attempts, delays, outcome
    scan,           \* scanKeys(): cursor, pages read, keys collected
    savers,         \* two save phases writing one key of one store
    ops             \* history of store and archive operations

vars == <<env, inputs, store, pc, cacheData, matchedKey, cacheHit, idx,
          latestKey, pendingErr, handler, tempFile, tempSize, outputs,
          savedState, failed, warned, saveFailed, restoreOutcome, saveOutcome,
          saveError, restoredData, saveCfg, job, uploaded, sel, ar, conn, scan, savers,
          ops>>

----------------------------------------------------------------------------
(* Bounds of the model *)

MaxRestoreKeys == 2     \* longest restore-keys list tried
MaxStoreKeys == 2       \* most keys initially present in the store
MaxCalls == 2           \* most handler selections made by one process
MaxPaths == 2           \* most paths handed to compress()
MaxEntries == 2         \* most entries of an archive fetched from the store
MaxPages == 3           \* most pages one SCAN iteration is answered in

----------------------------------------------------------------------------
(* Strings *)

EmptyString == <<>>
Null == <<>>

\* UTF-16 code units of the characters used
Code(c) ==
    CASE c = "*" -> 42
      [] c = "/" -> 47
      [] c = "7" -> 55
      [] c = ":" -> 58
      [] c = "a" -> 97
      [] c = "b" -> 98
      [] c = "k" -> 107
      [] c = "n" -> 110
      [] c = "o" -> 111
      [] c = "p" -> 112
      [] c = "r" -> 114
      [] c = "u" -> 117
      [] c = "w" -> 119

\* s < t for JavaScript strings (comparison by code units)
RECURSIVE LtStr(_, _)
LtStr(s, t) ==
    IF t = <<>> THEN FALSE
    ELSE IF s = <<>> THEN TRUE
    ELSE IF Code(Head(s)) < Code(Head(t)) THEN TRUE
    ELSE IF Code(Head(s)) > Code(Head(t)) THEN FALSE
    ELSE LtStr(Tail(s), Tail(t))

\* Array.prototype.sort() without comparator, on an array of strings
RECURSIVE SortInsert(_, _)
SortInsert(x, sorted) ==
    IF sorted = <<>> THEN <<x>>
    ELSE IF LtStr(x, Head(sorted)) THEN <<x>> \o sorted
    ELSE <<Head(sorted)>> \o SortInsert(x, Tail(sorted))

RECURSIVE Sort(_)
Sort(a) == IF a = <<>> THEN <<>> ELSE SortInsert(Head(a), Sort(Tail(a)))

\* Array.prototype.reverse()
Reverse(a) == [i \in 1..Len(a) |-> a[Len(a) + 1 - i]]

\* String.prototype.endsWith('*')
EndsWithStar(s) == Len(s) > 0 /\ s[Len(s)] = "*"

\* index of the first occurrence of character c in s, 0 when absent
RECURSIVE IndexOf(_, _)
IndexOf(s, c) ==
    IF s = <<>> THEN 0
    ELSE IF Head(s) = c THEN 1
    ELSE IF IndexOf(Tail(s), c) = 0 THEN 0
    ELSE 1 + IndexOf(Tail(s), c)

\* String.prototype.split(sep) for a one-character separator
RECURSIVE Split(_, _)
Split(s, sep) ==
    IF IndexOf(s, sep) = 0 THEN <<s>>
    ELSE <<SubSeq(s, 1, IndexOf(s, sep) - 1)>>
             \o Split(SubSeq(s, IndexOf(s, sep) + 1, Len(s)), sep)

\* Array.prototype.slice(1)
Slice1(a) == SubSeq(a, 2, Len(a))

\* Array.prototype.join(sep)
RECURSIVE Join(_, _)
Join(a, sep) ==
    IF a = <<>> THEN <<>>
    ELSE IF Len(a) = 1 THEN a[1]
    ELSE a[1] \o <<sep>> \o Join(Tail(a), sep)

\* glob matching of SCAN ... MATCH pattern: '*' matches any run of characters
RECURSIVE GlobMatch(_, _)
GlobMatch(p, s) ==
    IF p = <<>> THEN s = <<>>
    ELSE IF Head(p) = "*"
         THEN GlobMatch(Tail(p), s) \/ (s # <<>> /\ GlobMatch(p, Tail(s)))
         ELSE s # <<>> /\ Head(s) = Head(p) /\ GlobMatch(Tail(p), Tail(s))

\* all orders in which the elements of a finite set can be listed
Perms(S) ==
    {f \in [1..Cardinality(S) -> S] :
        \A i, j \in 1..Cardinality(S) : f[i] = f[j] => i = j}

----------------------------------------------------------------------------
(* Numbers: NaN and the arithmetic the save phase does with it *)

NaN == -1

\* Number.prototype.toString(): the decimal string of n ('NaN' for NaN)
NumToString(n) == <<n>>

\* parseInt(s, 10): NaN for the empty string and for 'NaN'
ParseInt(s) == IF Len(s) = 0 THEN NaN ELSE s[1]

\* a * b
Mul(a, b) == IF a = NaN \/ b = NaN THEN NaN ELSE a * b

\* a > b
Gt(a, b) == a # NaN /\ b # NaN /\ a > b

\* a <= b
Le(a, b) == a # NaN /\ b # NaN /\ a <= b

----------------------------------------------------------------------------
(* Handler selection *)

ShellTools == {"tar", "zip", "gzip"}

\* a registry in which two shell handlers have one priority
tiedRegistry ==
    << [name |-> "TarGzipNativeHandler", native |-> TRUE,
        format |-> "tar+gzip", priority |-> 200, command |-> "none"],
       [name |-> "ZipNativeHandler", native |-> TRUE,
        format |-> "zip", priority |-> 150, command |-> "none"],
       [name |-> "GzipNativeHandler", native |-> TRUE,
        format |-> "gzip", priority |-> 100, command |-> "none"],
       [name |-> "TarGzipHandler", native |-> FALSE,
        format |-> "tar+gzip", priority |-> 100, command |-> "tar"],
       [name |-> "ZipHandler", native |-> FALSE,
        format |-> "zip", priority |-> 100, command |-> "zip"],
       [name |-> "GzipHandler", native |-> FALSE,
        format |-> "gzip", priority |-> 25, command |-> "gzip"] >>

\* the registered handlers, in registration order
handlerRegistry ==
    << [name |-> "TarGzipNativeHandler", native |-> TRUE,
        format |-> "tar+gzip", priority |-> 200, command |-> "none"],
       [name |-> "ZipNativeHandler", native |-> TRUE,
        format |-> "zip", priority |-> 150, command |-> "none"],
       [name |-> "GzipNativeHandler", native |-> TRUE,
        format |-> "gzip", priority |-> 100, command |-> "none"],
       [name |-> "TarGzipHandler", native |-> FALSE,
        format |-> "tar+gzip", priority |-> 100, command |-> "tar"],
       [name |-> "ZipHandler", native |-> FALSE,
        format |-> "zip", priority |-> 50, command |-> "zip"],
       [name |-> "GzipHandler", native |-> FALSE,
        format |-> "gzip", priority |-> 25, command |-> "gzip"] >>

\* a detect() that probes the handler's command for every handler
detectByCommand(h, tools) == h.command \in tools

\* handler.detect(): native handlers are always available, shell handlers
\* probe their command on the host
detect(h, tools) == h.native \/ h.command \in tools

filterHandlersByBackend(handlers, backend) ==
    IF backend = <<"auto">> THEN handlers
    ELSE IF backend = <<"native">>
         THEN SelectSeq(handlers, LAMBDA h : h.native)
    ELSE IF backend = <<"shell">>
         THEN SelectSeq(handlers, LAMBDA h : ~h.native)
    ELSE handlers

\* the comparator a.priority - b.priority: ascending
PriorityBeforeAscending(x, y) == x.priority < y.priority

\* the comparator (a, b) => b.priority - a.priority puts x before y
PriorityBefore(x, y) == x.priority > y.priority

\* availableHandlers.sort((a, b) => b.priority - a.priority): stable
RECURSIVE PriorityInsert(_, _)
PriorityInsert(x, sorted) ==
    IF sorted = <<>> THEN <<x>>
    ELSE IF PriorityBefore(x, Head(sorted)) THEN <<x>> \o sorted
    ELSE <<Head(sorted)>> \o PriorityInsert(x, Tail(sorted))

RECURSIVE SortByPriority(_)
SortByPriority(a) ==
    IF a = <<>> THEN <<>>
    ELSE PriorityInsert(a[Len(a)], SortByPriority(SubSeq(a, 1, Len(a) - 1)))

NoHandler == [name |-> "none", native |-> FALSE, format |-> "none",
              priority |-> 0, command |-> "none"]

\* the loop over the filtered handlers with the detect() call left out
AvailableHandlersUnchecked(filteredHandlers, tools) == filteredHandlers

\* for (const handler of filteredHandlers) if (await handler.detect()) push
AvailableHandlers(filteredHandlers, tools) ==
    SelectSeq(filteredHandlers, LAMBDA h : detect(h, tools))

\* the body of getBestCompressionHandler, over the handlers as registered
selectFrom(registry, backend, tools) ==
    LET filteredHandlers == filterHandlersByBackend(registry, backend)
        availableHandlers == AvailableHandlers(filteredHandlers, tools)
    IN  IF filteredHandlers = <<>>
        THEN [ok |-> FALSE, error |-> "No handlers available for backend",
              handler |-> NoHandler]
        ELSE IF availableHandlers = <<>>
        THEN IF backend = <<"shell">>
             THEN [ok |-> FALSE,
                   error |-> "No shell compression tools available",
                   handler |-> NoHandler]
             ELSE [ok |-> FALSE, error |-> "No compression tools available",
                   handler |-> NoHandler]
        ELSE [ok |-> TRUE, error |-> "",
              handler |-> SortByPriority(availableHandlers)[1]]

getBestCompressionHandler(backend, tools) ==
    selectFrom(handlerRegistry, backend, tools)

----------------------------------------------------------------------------
(* Tool detection (detector.ts) *)

\* core.getState(DETECTION_CACHE_KEY): nothing, a string that does not
\* parse to a list of results, or a list of results with their claims
NoDetection == [kind |-> "none", available |-> {}]

DetectionStates ==
    {NoDetection, [kind |-> "malformed", available |-> {}]}
        \cup {[kind |-> "results", available |-> a] : a \in SUBSET ShellTools}

\* detectAllTools(): the results it returns, and whether it probed the
\* host and saved the results to the action state
detectAllTools(persisted, tools) ==
    IF persisted.kind = "results"
    THEN [available |-> persisted.available, probed |-> FALSE]
    ELSE [available |-> tools, probed |-> TRUE]

\* the backend preference handed to the selection
SelectBackends == { <<"auto">>, <<"native">>, <<"shell">>, <<"other">> }

\* a process that has not called the selection
NoSelection ==
    [backend |-> <<"auto">>, tools |-> {}, persisted |-> NoDetection,
     cache |-> [known |-> {}, available |-> {}], saved |-> NoDetection,
     calls |-> <<>>, process |-> "main", probes |-> 0, returned |-> <<>>,
     detects |-> [i \in DOMAIN handlerRegistry |-> {}]]

----------------------------------------------------------------------------
(* Files and archives (compression/formats) *)

\* the files below the working directory: a path is the sequence of its
\* segments; a/x is text, b/x is an executable with binary content, l is a
\* symbolic link to a/x
SourceTree ==
    { [path |-> <<"a">>, type |-> "directory", content |-> "", mode |-> 493,
       linkname |-> <<>>],
      [path |-> <<"a", "x">>, type |-> "file", content |-> "text A",
       mode |-> 420, linkname |-> <<>>],
      [path |-> <<"b">>, type |-> "directory", content |-> "", mode |-> 493,
       linkname |-> <<>>],
      [path |-> <<"b", "x">>, type |-> "file", content |-> "binary B",
       mode |-> 493, linkname |-> <<>>],
      [path |-> <<"l">>, type |-> "symlink", content |-> "", mode |-> 511,
       linkname |-> <<"a", "x">>] }

\* p is a prefix of q
IsPrefix(p, q) == Len(p) <= Len(q) /\ SubSeq(q, 1, Len(p)) = p

\* lstat(p)
Lstat(p) == CHOOSE e \in SourceTree : e.path = p

\* p and everything below it
Subtree(p) == {e \in SourceTree : IsPrefix(p, e.path)}

\* the entries of a set listed parents first
RECURSIVE ParentsFirst(_)
ParentsFirst(S) ==
    IF S = {} THEN <<>>
    ELSE LET e == CHOOSE x \in S : \A y \in S : Len(x.path) <= Len(y.path)
         IN  <<e>> \o ParentsFirst(S \ {e})

\* the handler variants
HandlerVariants == {"TarGzipNativeHandler", "ZipNativeHandler",
                    "TarGzipHandler", "ZipHandler", "GzipHandler"}

NativeVariants == {"TarGzipNativeHandler", "ZipNativeHandler"}

ZipVariants == {"ZipNativeHandler", "ZipHandler"}

\* path.basename(absolutePath)
Basename(p) == <<p[Len(p)]>>

\* the name an input path is archived under: its basename in the native
\* handlers, its path relative to the working directory in the shell ones
ArchiveName(h, p) == IF h \in NativeVariants THEN Basename(p) ELSE p

\* the name, in the archive made from input path p, of the file q below p
NameIn(h, p, q) == ArchiveName(h, p) \o SubSeq(q, Len(p) + 1, Len(q))

\* the archive entry written for file e found below input path p: the tar
\* handlers store links as links, the zip handlers store the link's target
\* as a regular file
Entry(h, p, e) ==
    IF e.type = "symlink" /\ h \in ZipVariants
    THEN [name |-> NameIn(h, p, e.path), type |-> "file",
          content |-> Lstat(e.linkname).content,
          mode |-> Lstat(e.linkname).mode, linkname |-> <<>>]
    ELSE [name |-> NameIn(h, p, e.path), type |-> e.type,
          content |-> e.content, mode |-> e.mode, linkname |-> e.linkname]

\* the entries written for one input path: the path, then what it contains
EntriesOf(h, p) ==
    LET below == ParentsFirst(Subtree(p))
    IN  [i \in 1..Len(below) |-> Entry(h, p, below[i])]

\* compress(paths, outputFile, level): the entries in the order written
RECURSIVE compress(_, _)
compress(h, paths) ==
    IF paths = <<>> THEN <<>>
    ELSE EntriesOf(h, Head(paths)) \o compress(h, Tail(paths))

\* what the target directory holds under an entry's name once the entry
\* is extracted: the native zip handler does not restore modes, and the
\* shell gzip handler passes the tar stream through a string, which
\* garbles content that is not text
Extracted1(h, e) ==
    [path |-> e.name, type |-> e.type,
     content |-> IF h = "GzipHandler" /\ e.content = "binary B"
                 THEN "garbled" ELSE e.content,
     mode |-> IF h = "ZipNativeHandler"
              THEN (IF e.type = "directory" THEN 493 ELSE 420)
              ELSE e.mode,
     linkname |-> e.linkname]

\* extract(archivePath, targetDir): the entries applied in order, a later
\* entry replacing an earlier one of the same name
RECURSIVE extract(_, _, _)
extract(h, archive, target) ==
    IF archive = <<>> THEN target
    ELSE extract(h, Tail(archive),
                 {x \in target : x.path # Head(archive).name}
                     \cup {Extracted1(h, Head(archive))})

\* a handler that is not at work
NoArchive ==
    [handler |-> "none", paths |-> <<>>, level |-> 6, phase |-> "idle",
     archive |-> <<>>, outputFile |-> FALSE, target |-> {},
     targetDirBefore |-> FALSE, targetDir |-> FALSE, toolRun |-> FALSE,
     error |-> "", done |-> 0, nextCalls |-> <<>>, lost |-> {},
     settle |-> "none", listening |-> FALSE, emitted |-> "none",
     faults |-> <<>>, fileList |-> [exists |-> FALSE, paths |-> <<>>],
     calls |-> <<>>, writes |-> <<>>, closed |-> FALSE]

\* no scanKeys() call under way
NoScan ==
    [phase |-> "idle", plan |-> <<>>, sent |-> <<>>, cursor |-> "0",
     keys |-> <<>>, result |-> <<>>, error |-> ""]

\* no concurrent save phases
NoSavers ==
    [phase |-> "idle", key |-> <<>>, data |-> <<<<>>, <<>>>>, value |-> <<>>,
     at |-> <<"idle", "idle">>, verified |-> <<"none", "none">>,
     warned |-> <<FALSE, FALSE>>, log |-> <<>>]

\* the variables of the operations that are not under study
IdleAux == scan = NoScan /\ savers = NoSavers

\* no client being created: no attempt made, nothing scheduled, no error
NoConnection ==
    [phase |-> "idle", link |-> "idle", attempts |-> 0, times |-> 0,
     delays |-> <<>>, causes |-> <<>>, errorMsg |-> "", closed |-> FALSE,
     error |-> <<>>]

----------------------------------------------------------------------------
(* Key scoping *)

\* getCacheKey with the run id appended to the scope
getCacheKeyWithRunId(baseKey) ==
    LET repo == IF env.GITHUB_REPOSITORY # EmptyString
                THEN env.GITHUB_REPOSITORY
                ELSE <<"u", "n", "k", "n", "o", "w", "n">>
        runId == IF env.GITHUB_RUN_ID # EmptyString
                 THEN env.GITHUB_RUN_ID
                 ELSE <<"local">>
    IN  repo \o <<":">> \o runId \o <<":">> \o baseKey

getCacheKey(baseKey) ==
    LET repo == IF env.GITHUB_REPOSITORY # EmptyString
                THEN env.GITHUB_REPOSITORY
                ELSE <<"u", "n", "k", "n", "o", "w", "n">>
        runId == IF env.GITHUB_RUN_ID # EmptyString
                 THEN env.GITHUB_RUN_ID
                 ELSE <<"local">>
    IN  repo \o <<":">> \o baseKey

\* latestKey.split(':').slice(1).join(':') keeping only the first segment
OriginalKeyFirstSegment(k) ==
    IF Slice1(Split(k, ":")) = <<>> THEN <<>> ELSE Slice1(Split(k, ":"))[1]

\* latestKey.split(':').slice(1).join(':')
OriginalKey(k) == Join(Slice1(Split(k, ":")), ":")

----------------------------------------------------------------------------
(* The job: environment, inputs, store *)

\* values of GITHUB_REPOSITORY (owner/name, or unset)
RepoEnvs == { EmptyString, <<"o", "/", "r">> }

\* a key of another repository that may be present in the store
ForeignKey == <<"r", "/", "o", ":", "a">>

\* a key of a repository whose name extends the job's repository name
NeighbourKey == <<"o", "/", "r", "a", ":", "b">>

\* the `key` input
KeyInputs == { <<"a">>, <<"a", "b">> }

\* user keys under which earlier jobs may have saved
StoredUserKeys == { <<"a">>, <<"a", "b">>, <<"a", ":", "b">>, <<"b">> }

\* lines of the `restore-keys` input
RestoreKeyInputs == { <<"a">>, <<"b", "*">> }

\* the `compression-backend` input (empty when not given)
BackendInputs == { EmptyString, <<"native">>, <<"shell">> }

SeqsUpTo(S, n) == UNION { [1..m -> S] : m \in 0..n }

MB == 1048576

\* sizes the archive can have, in bytes (1 MB, 9 MB, 15 MB)
ArchiveSizes == { 1 * MB, 9 * MB, 15 * MB }

\* the blob stored under a key by an earlier job
Blob(k) == <<"blob">> \o k

\* the blob produced by compress() of a handler of the given format
ArchiveBlob(format) == <<"archive", format>>

\* no entry verified by an earlier save
NoUpload ==
    [key |-> EmptyString, data |-> Null, by |-> "none",
     backend |-> EmptyString]

Op(ph, op, i, k, d, m) ==
    [ph |-> ph, op |-> op, idx |-> i, key |-> k, data |-> d, matches |-> m]

GetState(name) ==
    IF name \in DOMAIN savedState THEN savedState[name] ELSE EmptyString

Init ==
    /\ env \in [GITHUB_REPOSITORY : RepoEnvs, GITHUB_RUN_ID : {<<"7">>}]
    /\ inputs \in [path : {<<"p">>},
                   key : KeyInputs,
                   restoreKeys : SeqsUpTo(RestoreKeyInputs, MaxRestoreKeys),
                   redisHost : {<<"host">>},
                   redisPort : {6379},
                   redisPassword : {EmptyString},
                   ttl : {604800},
                   compression : {6},
                   compressionBackend : BackendInputs,
                   maxCacheSize : {10}]
    /\ \E present \in SUBSET ({getCacheKey(k) : k \in StoredUserKeys}
                                \cup {ForeignKey, NeighbourKey}) :
          /\ Cardinality(present) <= MaxStoreKeys
          /\ store = [k \in present |-> Blob(k)]
    /\ pc = "r_connect"
    /\ cacheData = Null
    /\ matchedKey = EmptyString
    /\ cacheHit = FALSE
    /\ idx = 0
    /\ latestKey = EmptyString
    /\ pendingErr = ""
    /\ handler = NoHandler
    /\ tempFile = FALSE
    /\ tempSize = 0
    /\ outputs = <<>>
    /\ savedState = <<>>
    /\ failed = FALSE
    /\ warned = FALSE
    /\ saveFailed = FALSE
    /\ restoreOutcome = "none"
    /\ saveOutcome = "none"
    /\ saveError = ""
    /\ restoredData = Null
    /\ saveCfg = <<>>
    /\ job = "first"
    /\ uploaded = NoUpload
    /\ sel = NoSelection
    /\ ar = NoArchive
    /\ conn = NoConnection
    /\ scan = NoScan
    /\ savers = NoSavers
    /\ ops = <<>>

----------------------------------------------------------------------------
(* Restore phase (index.ts, run) *)

\* the finally block of both phases with the unlink left out
UnlinkSkipped(exists) == exists

\* if (fs.existsSync(tempFile)) fs.unlinkSync(tempFile)
UnlinkIfExists(exists) == IF exists THEN FALSE ELSE exists

\* a restore key loop that gives up after the pattern just tried
NextPatternStops ==
    /\ idx' = idx
    /\ pc' = "r_miss"

\* the restore key loop going on to the next pattern, or leaving the loop
NextPattern ==
    IF idx < Len(inputs.restoreKeys)
    THEN /\ idx' = idx + 1
         /\ pc' = "r_scan"
    ELSE /\ idx' = idx
         /\ pc' = "r_miss"

\* the MATCH pattern taken from the restore keys in reverse order
ScanPatternReversed(i) ==
    LET restoreKey == inputs.restoreKeys[Len(inputs.restoreKeys) + 1 - i]
        fullRestoreKey == getCacheKey(restoreKey)
    IN  IF EndsWithStar(restoreKey) THEN fullRestoreKey
        ELSE fullRestoreKey \o <<"*">>

\* the MATCH pattern built for restore key number i
ScanPattern(i) ==
    LET restoreKey == inputs.restoreKeys[i]
        fullRestoreKey == getCacheKey(restoreKey)
    IN  IF EndsWithStar(restoreKey) THEN fullRestoreKey
        ELSE fullRestoreKey \o <<"*">>

\* createRedisClient: connect and PING succeed, or the error reaches catch
RestoreConnect ==
    /\ pc = "r_connect"
    /\ \/ /\ pc' = "r_get"
          /\ ops' = Append(ops, Op("restore", "CONNECT", 0, EmptyString, Null, {}))
          /\ UNCHANGED failed
       \/ /\ pc' = "r_done"
          /\ failed' = TRUE
          /\ ops' = Append(ops, Op("restore", "CONNECT-ERR", 0, EmptyString,
                                   Null, {}))
    /\ UNCHANGED <<env, inputs, scan, savers, sel, ar, conn, job, uploaded, store, cacheData, matchedKey, cacheHit, idx,
                   latestKey, pendingErr, tempFile, tempSize, outputs,
                   savedState, warned, restoreOutcome, saveOutcome,
                   restoredData, saveCfg,
                   handler, saveError,
                   saveFailed>>

\* redis.getBuffer(fullKey) and the branch on its result
RestoreGetExact ==
    /\ pc = "r_get"
    /\ LET fullKey == getCacheKey(inputs.key)
           data == IF fullKey \in DOMAIN store THEN store[fullKey] ELSE Null
       IN  \/ /\ ops' = Append(ops, Op("restore", "GET", 0, fullKey, data, {}))
              /\ IF data # Null
                 THEN /\ cacheData' = data
                      /\ matchedKey' = inputs.key
                      /\ cacheHit' = TRUE
                      /\ pc' = "r_select"
                      /\ UNCHANGED idx
                 ELSE /\ UNCHANGED <<cacheData, matchedKey, cacheHit>>
                      /\ IF Len(inputs.restoreKeys) > 0
                         THEN idx' = 1 /\ pc' = "r_scan"
                         ELSE idx' = idx /\ pc' = "r_miss"
              /\ UNCHANGED pendingErr
           \/ /\ ops' = Append(ops, Op("restore", "GET-ERR", 0, fullKey, Null, {}))
              /\ pendingErr' = "GET failed"
              /\ pc' = "r_quit"
              /\ UNCHANGED <<cacheData, matchedKey, cacheHit, idx>>
    /\ UNCHANGED <<env, inputs, scan, savers, sel, ar, conn, job, uploaded, store, latestKey, tempFile, tempSize, outputs,
                   savedState, failed, warned, restoreOutcome, saveOutcome,
                   restoredData, saveCfg,
                   handler, saveError,
                   saveFailed>>

\* a SCAN that returns every key of the store, whatever the pattern
MatchingKeysUnfiltered(pattern) == DOMAIN store

\* the keys SCAN ... MATCH pattern returns over the whole iteration
MatchingKeys(pattern) == {k \in DOMAIN store : GlobMatch(pattern, k)}

\* scanKeys(redis, pattern), then matchingKeys.sort().reverse()[0]
RestoreScan ==
    /\ pc = "r_scan"
    /\ LET pattern == ScanPattern(idx)
           matching == MatchingKeys(pattern)
       IN  \/ \E matchingKeys \in Perms(matching) :
                /\ ops' = Append(ops, Op("restore", "SCAN", idx, pattern, Null,
                                         matching))
                /\ IF Len(matchingKeys) > 0
                   THEN /\ latestKey' = Reverse(Sort(matchingKeys))[1]
                        /\ pc' = "r_fget"
                        /\ UNCHANGED idx
                   ELSE /\ UNCHANGED latestKey
                        /\ NextPattern
                /\ UNCHANGED pendingErr
           \/ /\ ops' = Append(ops, Op("restore", "SCAN-ERR", idx, pattern,
                                       Null, {}))
              /\ pendingErr' = "Failed to scan Redis keys"
              /\ pc' = "r_quit"
              /\ UNCHANGED <<idx, latestKey>>
    /\ UNCHANGED <<env, inputs, scan, savers, sel, ar, conn, job, uploaded, store, cacheData, matchedKey, cacheHit,
                   tempFile, tempSize, outputs, savedState, failed, warned,
                   restoreOutcome, saveOutcome, restoredData, saveCfg,
                   handler, saveError,
                   saveFailed>>

\* a restore from a restore key reported as an exact hit
FallbackCacheHitAsExact == TRUE

\* cacheHit = false: a restore from a restore key is not an exact hit
FallbackCacheHit == FALSE

\* the pattern scanned again after its greatest key gave no data, so that
\* its other matches are tried
EmptyGetRetriesPattern ==
    /\ idx' = idx
    /\ pc' = "r_scan"

\* if (cacheData) { ... break } has no else: a GET without data falls through
\* to the next iteration of the restore key loop
AfterEmptyGet == NextPattern

\* redis.getBuffer(latestKey) and the branch on its result
RestoreGetFallback ==
    /\ pc = "r_fget"
    /\ LET data == IF latestKey \in DOMAIN store THEN store[latestKey]
                   ELSE Null
       IN  \/ /\ ops' = Append(ops, Op("restore", "GET", idx, latestKey, data,
                                       {}))
              /\ IF data # Null
                 THEN /\ cacheData' = data
                      /\ matchedKey' = OriginalKey(latestKey)
                      /\ cacheHit' = FallbackCacheHit
                      /\ pc' = "r_select"
                      /\ UNCHANGED idx
                 ELSE /\ UNCHANGED <<cacheData, matchedKey, cacheHit>>
                      /\ AfterEmptyGet
              /\ UNCHANGED pendingErr
           \/ /\ ops' = Append(ops, Op("restore", "GET-ERR", idx, latestKey,
                                       Null, {}))
              /\ pendingErr' = "GET failed"
              /\ pc' = "r_quit"
              /\ UNCHANGED <<cacheData, matchedKey, cacheHit, idx>>
    /\ UNCHANGED <<env, inputs, scan, savers, sel, ar, conn, job, uploaded, store, latestKey, tempFile, tempSize, outputs,
                   savedState, failed, warned, restoreOutcome, saveOutcome,
                   restoredData, saveCfg,
                   handler, saveError,
                   saveFailed>>

\* the backend preference of the restore phase: input, or 'auto'
RestoreBackend ==
    IF inputs.compressionBackend # EmptyString
    THEN inputs.compressionBackend ELSE <<"auto">>

\* getBestCompressionHandler(compressionBackend), then writeFileSync(tempFile)
RestoreSelectAndWrite ==
    /\ pc = "r_select"
    /\ \E tools \in SUBSET ShellTools :
         LET chosen == getBestCompressionHandler(RestoreBackend, tools)
         IN  IF ~chosen.ok
             THEN /\ pendingErr' = chosen.error
                  /\ pc' = "r_quit"
                  /\ handler' = chosen.handler
                  /\ ops' = Append(ops, Op("restore", "SELECT-ERR", idx,
                                           EmptyString, Null, {}))
                  /\ UNCHANGED <<tempFile, tempSize>>
             ELSE \/ /\ tempFile' = TRUE
                     /\ handler' = chosen.handler
                     /\ tempSize' = 1
                     /\ pc' = "r_extract"
                     /\ ops' = Append(ops, Op("restore", "WRITE", idx,
                                              EmptyString, cacheData, {}))
                     /\ UNCHANGED pendingErr
                  \/ \E partial \in BOOLEAN :
                       /\ tempFile' = UnlinkIfExists(partial)
                       /\ tempSize' = 0
                       /\ handler' = chosen.handler
                       /\ pendingErr' = "write failed"
                       /\ pc' = "r_quit"
                       /\ ops' = Append(ops, Op("restore", "WRITE-ERR", idx,
                                                EmptyString, Null, {}))
    /\ UNCHANGED <<env, inputs, scan, savers, sel, ar, conn, job, uploaded, store, cacheData, matchedKey, cacheHit, idx,
                   latestKey, outputs, savedState, failed, warned,
                   restoreOutcome, saveOutcome, restoredData, saveCfg,
                   saveError,
                   saveFailed>>

\* the byte format a handler writes and reads: a ZIP stream, or a
\* gzip-compressed tar stream (tar+gzip, and gzip applied to a tar file)
ArchiveFamily(format) == IF format = "zip" THEN "zip" ELSE "gzipped-tar"

\* the byte format of a stored blob; unknown for blobs of earlier jobs
BlobFamily(d) ==
    IF d # Null /\ d[1] = "archive" THEN ArchiveFamily(d[2]) ELSE "unknown"

\* extract() of handler h can read blob d
CanExtract(h, d) == BlobFamily(d) \in {"unknown", ArchiveFamily(h.format)}

\* compressionHandler.extract(tempFile, workingDir), the finally block that
\* removes the temp file, and on success the outputs
RestoreExtract ==
    /\ pc = "r_extract"
    /\ tempFile' = UnlinkIfExists(tempFile)
    /\ tempSize' = 0
    /\ pc' = "r_quit"
    /\ \/ /\ CanExtract(handler, cacheData)
          /\ ops' = Append(ops, Op("restore", "EXTRACT", idx, EmptyString,
                                   cacheData, {}))
          /\ restoredData' = cacheData
          /\ outputs' = ("cache-hit" :> (IF cacheHit THEN <<"true">>
                                         ELSE <<"false">>))
                        @@ ("cache-matched-key" :> matchedKey)
          /\ restoreOutcome' = IF cacheHit THEN "HIT-exact" ELSE "HIT-fallback"
          /\ UNCHANGED pendingErr
       \/ /\ ops' = Append(ops, Op("restore", "EXTRACT-ERR", idx, EmptyString,
                                   IF CanExtract(handler, cacheData) THEN Null
                                   ELSE <<"format">>, {}))
          /\ pendingErr' = "extract failed"
          /\ UNCHANGED <<restoredData, outputs, restoreOutcome>>
    /\ UNCHANGED <<env, inputs, scan, savers, sel, ar, conn, job, uploaded, store, cacheData, matchedKey, cacheHit, idx,
                   latestKey, savedState, failed, warned, saveOutcome, saveCfg,
                   handler, saveError,
                   saveFailed>>

\* the cache-miss branch: outputs, then saveState for the post action
RestoreMiss ==
    /\ pc = "r_miss"
    /\ outputs' = ("cache-hit" :> <<"false">>)
                  @@ ("cache-matched-key" :> EmptyString)
    /\ savedState' = ("cache-key" :> inputs.key)
                  @@ ("cache-paths" :> inputs.path)
                  @@ ("redis-host" :> inputs.redisHost)
                  @@ ("redis-port" :> NumToString(inputs.redisPort))
                  @@ ("redis-password" :> inputs.redisPassword)
                  @@ ("ttl" :> NumToString(inputs.ttl))
                  @@ ("compression" :> NumToString(inputs.compression))
                  @@ ("compression-backend" :> RestoreBackend)
    /\ restoreOutcome' = "MISS"
    /\ pc' = "r_quit"
    /\ UNCHANGED <<env, inputs, scan, savers, sel, ar, conn, job, uploaded, store, cacheData, matchedKey, cacheHit, idx,
                   latestKey, pendingErr, tempFile, tempSize, failed, warned,
                   saveOutcome, restoredData, saveCfg, ops,
                   handler, saveError,
                   saveFailed>>

\* finally { await redis.quit() } and the catch block of run()
RestoreQuit ==
    /\ pc = "r_quit"
    /\ pc' = "r_done"
    /\ pendingErr' = ""
    /\ \/ /\ ops' = Append(ops, Op("restore", "QUIT", 0, EmptyString, Null, {}))
          /\ failed' = (pendingErr # "")
       \/ /\ ops' = Append(ops, Op("restore", "QUIT-ERR", 0, EmptyString, Null,
                                   {}))
          /\ failed' = TRUE
    /\ UNCHANGED <<env, inputs, scan, savers, sel, ar, conn, job, uploaded, store, cacheData, matchedKey, cacheHit, idx,
                   latestKey, tempFile, tempSize, outputs, savedState, warned,
                   restoreOutcome, saveOutcome, restoredData, saveCfg,
                   handler, saveError,
                   saveFailed>>

----------------------------------------------------------------------------
(* Save phase (post.ts, run) *)

\* the save phase writing and verifying under the key without its scope
SaveFullKeyUnscoped == saveCfg.key

\* the scoped key the save phase writes and verifies
SaveFullKey == getCacheKey(saveCfg.key)

\* a catch block that reports the failure with core.setFailed
SaveCatchSetsFailed(msg) ==
    /\ warned' = TRUE
    /\ saveError' = msg
    /\ saveOutcome' = "failed"
    /\ saveFailed' = TRUE

\* the catch block of the save phase's run(): a warning, never setFailed
SaveCatch(msg) ==
    /\ warned' = TRUE
    /\ saveError' = msg
    /\ saveOutcome' = "failed"
    /\ saveFailed' = saveFailed

\* a save phase that never takes the early return
NeverSkipSave(key, pathsInput) == FALSE

\* if (!key || !pathsInput) return
ShouldSkipSave(key, pathsInput) ==
    key = EmptyString \/ pathsInput = EmptyString

\* a save phase that goes on with no path to archive
NoPathsIgnored(n) == FALSE

\* if (resolvedPaths.length === 0) return; if (validPaths.length === 0) return
NoPaths(n) == n = 0

\* getState of every setting, the early return when no key was persisted,
\* then resolveGlobPaths and validatePaths
SaveStart ==
    /\ pc = "r_done"
    /\ \E resolved \in 0..1 : \E valid \in 0..resolved :
        /\ ShouldSkipSave(GetState("cache-key"), GetState("cache-paths")) =>
              resolved = 0
        /\ saveCfg' = [key |-> GetState("cache-key"),
                       pathsInput |-> GetState("cache-paths"),
                       redisHost |-> GetState("redis-host"),
                       redisPort |-> ParseInt(GetState("redis-port")),
                       redisPassword |-> GetState("redis-password"),
                       ttl |-> ParseInt(GetState("ttl")),
                       compression |-> ParseInt(GetState("compression")),
                       compressionBackend |->
                           IF GetState("compression-backend") # EmptyString
                           THEN GetState("compression-backend") ELSE <<"auto">>,
                       maxCacheSize |-> ParseInt(GetState("max-cache-size")),
                       resolvedPaths |-> resolved,
                       validPaths |-> valid]
        /\ IF ShouldSkipSave(GetState("cache-key"), GetState("cache-paths"))
           THEN /\ saveOutcome' = "skipped-restored"
                /\ pc' = "s_done"
                /\ UNCHANGED warned
           ELSE IF NoPaths(resolved)
           THEN /\ saveOutcome' = "skipped-no-files"
                /\ warned' = TRUE
                /\ pc' = "s_done"
           ELSE IF NoPaths(valid)
           THEN /\ saveOutcome' = "skipped-invalid-paths"
                /\ warned' = TRUE
                /\ pc' = "s_done"
           ELSE /\ pc' = "s_connect"
                /\ UNCHANGED <<saveOutcome, warned>>
    /\ UNCHANGED <<env, inputs, scan, savers, sel, ar, conn, job, uploaded, store, cacheData, matchedKey, cacheHit, idx,
                   latestKey, pendingErr, handler, tempFile, tempSize, outputs,
                   savedState, failed, restoreOutcome, saveError,
                   restoredData, ops,
                   saveFailed>>

\* createRedisClient: connect and PING succeed, or the error reaches catch
SaveConnect ==
    /\ pc = "s_connect"
    /\ \/ /\ pc' = "s_select"
          /\ ops' = Append(ops, Op("save", "CONNECT", 0, EmptyString, Null, {}))
          /\ UNCHANGED <<warned, saveError, saveOutcome, saveFailed>>
       \/ /\ pc' = "s_done"
          /\ SaveCatch("Failed to connect to Redis")
          /\ ops' = Append(ops, Op("save", "CONNECT-ERR", 0, EmptyString, Null,
                                   {}))
    /\ UNCHANGED <<env, inputs, scan, savers, sel, ar, conn, job, uploaded, store, cacheData, matchedKey, cacheHit, idx,
                   latestKey, pendingErr, handler, tempFile, tempSize, outputs,
                   savedState, failed, restoreOutcome, restoredData, saveCfg>>

\* getBestCompressionHandler(compressionBackend)
SaveSelectHandler ==
    /\ pc = "s_select"
    /\ \E tools \in SUBSET ShellTools :
         LET chosen == getBestCompressionHandler(saveCfg.compressionBackend, tools)
         IN  /\ handler' = chosen.handler
             /\ IF chosen.ok
                THEN /\ pc' = "s_compress"
                     /\ UNCHANGED <<pendingErr, ops>>
                ELSE /\ pc' = "s_quit"
                     /\ pendingErr' = chosen.error
                     /\ ops' = Append(ops, Op("save", "SELECT-ERR", 0,
                                              EmptyString, Null, {}))
    /\ UNCHANGED <<env, inputs, scan, savers, sel, ar, conn, job, uploaded, store, cacheData, matchedKey, cacheHit, idx,
                   latestKey, tempFile, tempSize, outputs, savedState, failed,
                   warned, restoreOutcome, saveOutcome, saveError,
                   restoredData, saveCfg,
                   saveFailed>>

\* a return or a throw that leaves the phase at once, the finally blocks
\* not run
LeaveSkipsFinally == "s_done"

\* the return of the size guard and the rethrow of a compress error sit
\* inside try { } finally { redis.quit() }: control passes through the
\* finally block before run() ends
LeaveInsideTry == "s_quit"

\* compressionHandler.compress(validPaths, tempFile, compression); when it
\* throws, the finally block removes whatever was written
SaveCompress ==
    /\ pc = "s_compress"
    /\ \/ \E size \in ArchiveSizes :
            /\ tempFile' = TRUE
            /\ tempSize' = size
            /\ pc' = "s_check"
            /\ ops' = Append(ops, Op("save", "COMPRESS", 0, EmptyString,
                                     ArchiveBlob(handler.format), {}))
            /\ UNCHANGED pendingErr
       \/ \E partial \in BOOLEAN :
            /\ tempFile' = UnlinkIfExists(partial)
            /\ tempSize' = 0
            /\ pc' = LeaveInsideTry
            /\ pendingErr' = "compress failed"
            /\ ops' = Append(ops, Op("save", "COMPRESS-ERR", 0, EmptyString,
                                     Null, {}))
    /\ UNCHANGED <<env, inputs, scan, savers, sel, ar, conn, job, uploaded, store, cacheData, matchedKey, cacheHit, idx,
                   latestKey, handler, outputs, savedState, failed, warned,
                   restoreOutcome, saveOutcome, saveError, restoredData,
                   saveCfg,
                   saveFailed>>

\* the size limit in bytes the save phase compares the archive with
MaxCacheSizeBytes == Mul(saveCfg.maxCacheSize, MB)

\* statSync, the size guard, the 80% warning and readFileSync
SaveCheckSizeAndRead ==
    /\ pc = "s_check"
    /\ \/ \* statSync throws
          /\ tempFile' = UnlinkIfExists(tempFile)
          /\ pendingErr' = "stat failed"
          /\ pc' = "s_quit"
          /\ ops' = Append(ops, Op("save", "STAT-ERR", 0, EmptyString, Null,
                                   {}))
          /\ UNCHANGED <<warned, saveOutcome>>
       \/ \* the archive exceeds the configured maximum: return
          /\ Gt(tempSize, MaxCacheSizeBytes)
          /\ tempFile' = UnlinkIfExists(tempFile)
          /\ warned' = TRUE
          /\ saveOutcome' = "skipped-too-large"
          /\ pc' = LeaveInsideTry
          /\ UNCHANGED <<pendingErr, ops>>
       \/ \* within the limit: read the archive into memory
          /\ ~Gt(tempSize, MaxCacheSizeBytes)
          /\ warned' = (warned
                        \/ (Gt(tempSize * 10, Mul(MaxCacheSizeBytes, 8))
                            /\ Le(tempSize, MaxCacheSizeBytes)))
          /\ \/ /\ ops' = Append(ops, Op("save", "READ", 0, EmptyString,
                                         ArchiveBlob(handler.format), {}))
                /\ pc' = "s_setex"
                /\ UNCHANGED <<tempFile, pendingErr>>
             \/ /\ ops' = Append(ops, Op("save", "READ-ERR", 0, EmptyString,
                                         Null, {}))
                /\ tempFile' = UnlinkIfExists(tempFile)
                /\ pendingErr' = "read failed"
                /\ pc' = "s_quit"
          /\ UNCHANGED saveOutcome
    /\ UNCHANGED <<env, inputs, scan, savers, sel, ar, conn, job, uploaded, store, cacheData, matchedKey, cacheHit, idx,
                   latestKey, handler, tempSize, outputs, savedState, failed,
                   restoreOutcome, saveError, restoredData, saveCfg,
                   saveFailed>>

\* redis.setex(fullKey, ttl, cacheData)
SaveSetex ==
    /\ pc = "s_setex"
    /\ \/ /\ store' = [k \in DOMAIN store \cup {SaveFullKey} |->
                          IF k = SaveFullKey THEN ArchiveBlob(handler.format)
                          ELSE store[k]]
          /\ ops' = Append(ops, Op("save", "SETEX", 0, SaveFullKey,
                                   ArchiveBlob(handler.format), {}))
          /\ pc' = "s_exists"
          /\ UNCHANGED <<tempFile, pendingErr>>
       \/ /\ ops' = Append(ops, Op("save", "SETEX-ERR", 0, SaveFullKey, Null,
                                   {}))
          /\ tempFile' = UnlinkIfExists(tempFile)
          /\ pendingErr' = "SETEX failed"
          /\ pc' = "s_quit"
          /\ UNCHANGED store
    /\ UNCHANGED <<env, inputs, scan, savers, sel, ar, conn, job, uploaded, cacheData, matchedKey, cacheHit, idx,
                   latestKey, handler, tempSize, outputs, savedState, failed,
                   warned, restoreOutcome, saveOutcome, saveError,
                   restoredData, saveCfg,
                   saveFailed>>

\* the verification with the throw on a missing key left out
VerifyIgnored(exists) == ""

\* if (!exists) throw new Error('Cache verification failed ...')
Verify(exists) == IF ~exists THEN "Cache verification failed" ELSE ""

\* redis.exists(fullKey), the verification and the finally block
SaveExists ==
    /\ pc = "s_exists"
    /\ tempFile' = UnlinkIfExists(tempFile)
    /\ pc' = "s_quit"
    /\ \/ LET exists == SaveFullKey \in DOMAIN store
          IN  /\ ops' = Append(ops, Op("save", "EXISTS", 0, SaveFullKey,
                                       IF exists THEN <<"1">> ELSE <<"0">>, {}))
              /\ pendingErr' = Verify(exists)
              /\ saveOutcome' = IF Verify(exists) = "" THEN "saved"
                                ELSE saveOutcome
              /\ uploaded' = IF exists /\ Verify(exists) = ""
                             THEN [key |-> SaveFullKey,
                                   data |-> store[SaveFullKey], by |-> job,
                                   backend |-> saveCfg.compressionBackend]
                             ELSE uploaded
       \/ /\ ops' = Append(ops, Op("save", "EXISTS-ERR", 0, SaveFullKey, Null,
                                   {}))
          /\ pendingErr' = "EXISTS failed"
          /\ UNCHANGED <<saveOutcome, uploaded>>
    /\ UNCHANGED <<env, inputs, scan, savers, sel, ar, conn, job, store, cacheData, matchedKey, cacheHit, idx,
                   latestKey, handler, tempSize, outputs, savedState, failed,
                   warned, restoreOutcome, saveError, restoredData, saveCfg,
                   saveFailed>>

\* finally { await redis.quit() } and the catch block of run()
SaveQuit ==
    /\ pc = "s_quit"
    /\ pc' = "s_done"
    /\ pendingErr' = ""
    /\ \/ /\ ops' = Append(ops, Op("save", "QUIT", 0, EmptyString, Null, {}))
          /\ IF pendingErr # ""
             THEN SaveCatch(pendingErr)
             ELSE UNCHANGED <<warned, saveError, saveOutcome, saveFailed>>
       \/ /\ ops' = Append(ops, Op("save", "QUIT-ERR", 0, EmptyString, Null,
                                   {}))
          /\ SaveCatch("QUIT failed")
    /\ UNCHANGED <<env, inputs, scan, savers, sel, ar, conn, job, uploaded, store, cacheData, matchedKey, cacheHit, idx,
                   latestKey, handler, tempFile, tempSize, outputs, savedState,
                   failed, restoreOutcome, restoredData, saveCfg>>

----------------------------------------------------------------------------
(* The store's own behaviour *)

\* a key expires or is evicted while the job runs
Evict ==
    /\ pc # "s_done"
    /\ \E k \in DOMAIN store :
         /\ store' = [j \in DOMAIN store \ {k} |-> store[j]]
         /\ uploaded' = IF k = uploaded.key THEN NoUpload ELSE uploaded
    /\ UNCHANGED <<env, inputs, scan, savers, sel, ar, conn, job, pc, cacheData, matchedKey, cacheHit, idx,
                   latestKey, pendingErr, handler, tempFile, tempSize, outputs,
                   savedState, failed, warned, restoreOutcome, saveOutcome,
                   saveError, restoredData, saveCfg, ops,
                   saveFailed>>

\* a later job of the same repository starts, with the same key and restore
\* keys; its runner and its backend preference may differ
NextJob ==
    /\ pc = "s_done"
    /\ job = "first"
    /\ job' = "later"
    /\ \E b \in BackendInputs :
         inputs' = [inputs EXCEPT !.compressionBackend = b]
    /\ pc' = "r_connect"
    /\ cacheData' = Null
    /\ matchedKey' = EmptyString
    /\ cacheHit' = FALSE
    /\ idx' = 0
    /\ latestKey' = EmptyString
    /\ pendingErr' = ""
    /\ handler' = NoHandler
    /\ tempFile' = FALSE
    /\ tempSize' = 0
    /\ outputs' = <<>>
    /\ savedState' = <<>>
    /\ failed' = FALSE
    /\ warned' = FALSE
    /\ saveFailed' = FALSE
    /\ restoreOutcome' = "none"
    /\ saveOutcome' = "none"
    /\ saveError' = ""
    /\ restoredData' = Null
    /\ saveCfg' = <<>>
    /\ ops' = <<>>
    /\ UNCHANGED <<env, store, uploaded, sel, ar, conn, scan, savers>>

Next ==
    \/ RestoreConnect
    \/ RestoreGetExact
    \/ RestoreScan
    \/ RestoreGetFallback
    \/ RestoreSelectAndWrite
    \/ RestoreExtract
    \/ RestoreMiss
    \/ RestoreQuit
    \/ SaveStart
    \/ SaveConnect
    \/ SaveSelectHandler
    \/ SaveCompress
    \/ SaveCheckSizeAndRead
    \/ SaveSetex
    \/ SaveExists
    \/ SaveQuit
    \/ Evict

Spec == Init /\ [][Next]_vars

\* the variables of the job while no phase of a job is running
IdleJob ==
    /\ env = [GITHUB_REPOSITORY |-> <<"o", "/", "r">>, GITHUB_RUN_ID |-> <<"7">>]
    /\ inputs = [path |-> <<"p">>, key |-> <<"a">>, restoreKeys |-> <<>>,
                 redisHost |-> <<"host">>, redisPort |-> 6379,
                 redisPassword |-> EmptyString, ttl |-> 604800,
                 compression |-> 6, compressionBackend |-> EmptyString,
                 maxCacheSize |-> 10]
    /\ store = <<>>
    /\ cacheData = Null
    /\ matchedKey = EmptyString
    /\ cacheHit = FALSE
    /\ idx = 0
    /\ latestKey = EmptyString
    /\ pendingErr = ""
    /\ handler = NoHandler
    /\ tempFile = FALSE
    /\ tempSize = 0
    /\ outputs = <<>>
    /\ savedState = <<>>
    /\ failed = FALSE
    /\ warned = FALSE
    /\ saveFailed = FALSE
    /\ restoreOutcome = "none"
    /\ saveOutcome = "none"
    /\ saveError = ""
    /\ restoredData = Null
    /\ saveCfg = <<>>
    /\ job = "first"
    /\ uploaded = NoUpload
    /\ ops = <<>>

\* a process about to select a handler: its backend preference, the shell
\* tools installed on its runner and the detection state persisted for it
InitSelect ==
    /\ IdleJob
    /\ IdleAux
    /\ pc = "select"
    /\ ar = NoArchive
    /\ conn = NoConnection
    /\ \E b \in SelectBackends, tools \in SUBSET ShellTools,
          persisted \in DetectionStates :
          sel = [NoSelection EXCEPT !.backend = b, !.tools = tools,
                                    !.persisted = persisted]

\* one call of getBestCompressionHandler(backend): detectAllTools() fills
\* the detection cache and saves what it probed, then the handlers are
\* filtered, asked detect() and ranked
SelectCall ==
    /\ pc = "select"
    /\ Len(sel.calls) < MaxCalls
    /\ LET d == detectAllTools(sel.persisted, sel.tools)
           r == getBestCompressionHandler(sel.backend, sel.tools)
       IN  sel' = [sel EXCEPT
                     !.cache = [known |-> ShellTools, available |-> d.available],
                     !.saved = IF d.probed
                               THEN [kind |-> "results", available |-> d.available]
                               ELSE @,
                     !.probes = IF d.probed THEN @ + 1 ELSE @,
                     !.returned = Append(@, d),
                     !.calls = Append(@, r)]
    /\ UNCHANGED <<env, inputs, scan, savers, ar, conn, job, uploaded, store, pc, cacheData,
                   matchedKey, cacheHit, idx, latestKey, pendingErr, handler,
                   tempFile, tempSize, outputs, savedState, failed, warned,
                   saveFailed, restoreOutcome, saveOutcome, saveError,
                   restoredData, saveCfg, ops>>

NextSelect == SelectCall

SpecSelect == InitSelect /\ [][NextSelect]_vars

\* the paths handed to compress(): files and directories below the working
\* directory
InputPaths == {e.path : e \in SourceTree}

\* compression levels tried; the level sets the effort of gzip or zlib and
\* does not change the entries of the archive
Levels == {0, 6, 9}

\* a handler about to compress some paths into an output file that does
\* not exist yet; the directory it will extract into may not exist either
InitArchive ==
    /\ IdleJob
    /\ IdleAux
    /\ pc = "archive"
    /\ sel = NoSelection
    /\ conn = NoConnection
    /\ \E h \in HandlerVariants, l \in Levels, d \in BOOLEAN,
          paths \in SeqsUpTo(InputPaths, MaxPaths) \ {<<>>} :
          ar = [NoArchive EXCEPT !.handler = h, !.paths = paths, !.level = l,
                                 !.phase = "start", !.targetDirBefore = d,
                                 !.targetDir = d]

\* whether a failing compress() can have created the output file: tar and
\* the native handlers open it at once, zip and gzip write it when done
PartialOutputs(h) ==
    IF h \in {"ZipHandler", "GzipHandler"} THEN {FALSE} ELSE BOOLEAN

\* what compress() does with the output file before it rethrows: the
\* native handlers unlink it in their catch block, the shell handlers
\* leave it
CleanupPartial(h, partial) ==
    IF h \in NativeVariants THEN UnlinkIfExists(partial) ELSE partial

\* handler.compress(paths, outputFile, level)
Compress ==
    /\ pc = "archive"
    /\ ar.phase = "start"
    /\ \/ ar' = [ar EXCEPT !.phase = "compressed",
                            !.archive = compress(ar.handler, ar.paths),
                            !.outputFile = TRUE]
       \/ \E partial \in PartialOutputs(ar.handler) :
            ar' = [ar EXCEPT !.phase = "compress-failed",
                             !.outputFile = CleanupPartial(ar.handler, partial),
                             !.error = "compress failed"]
    /\ UNCHANGED <<env, inputs, scan, savers, sel, conn, job, uploaded, store, pc,
                   cacheData, matchedKey, cacheHit, idx, latestKey,
                   pendingErr, handler, tempFile, tempSize, outputs,
                   savedState, failed, warned, saveFailed, restoreOutcome,
                   saveOutcome, saveError, restoredData, saveCfg, ops>>

\* an extract() that goes on without looking for the archive
ArchiveCheckSkipped(exists) == TRUE

\* try { fs.statSync(archivePath) } catch { throw 'Archive file not found' }
ArchiveFound(exists) == exists

\* the handlers that create the target directory when it is missing
CreatesTargetDir(h) == h \in NativeVariants \cup {"ZipHandler"}

\* handler.extract(archivePath, targetDir), on the output file of
\* compress() or on a path where no file exists
Extract ==
    /\ pc = "archive"
    /\ ar.phase \in {"start", "compressed"}
    /\ IF ~ArchiveFound(ar.outputFile)
       THEN ar' = [ar EXCEPT !.phase = "extract-failed",
                             !.error = "Archive file not found"]
       ELSE \/ /\ ar.targetDir \/ CreatesTargetDir(ar.handler)
               /\ ar' = [ar EXCEPT !.phase = "extracted",
                                   !.target = extract(ar.handler, ar.archive, {}),
                                   !.targetDir = TRUE,
                                   !.toolRun = TRUE]
            \/ ar' = [ar EXCEPT !.phase = "extract-failed",
                                !.targetDir =
                                    (ar.targetDir \/ ar.handler \in NativeVariants),
                                !.toolRun = TRUE,
                                !.error = "extract failed"]
    /\ UNCHANGED <<env, inputs, scan, savers, sel, conn, job, uploaded, store, pc,
                   cacheData, matchedKey, cacheHit, idx, latestKey,
                   pendingErr, handler, tempFile, tempSize, outputs,
                   savedState, failed, warned, saveFailed, restoreOutcome,
                   saveOutcome, saveError, restoredData, saveCfg, ops>>

NextArchive == Compress \/ Extract

SpecArchive == InitArchive /\ [][NextArchive]_vars

----------------------------------------------------------------------------
(* extract() of the native handlers, entry by entry, on an archive fetched
   from the store *)

\* the directory extract() is given: the working directory of the job
TargetDir == <<"w">>

\* path.normalize on the segments of an absolute path: empty and '.'
\* segments are dropped, '..' removes the segment before it
RECURSIVE Normalize(_, _)
Normalize(acc, rest) ==
    IF rest = <<>> THEN acc
    ELSE LET seg == Head(rest)
         IN  IF seg \in {"", "."} THEN Normalize(acc, Tail(rest))
             ELSE IF seg = ".."
             THEN Normalize(IF acc = <<>> THEN <<>>
                            ELSE SubSeq(acc, 1, Len(acc) - 1), Tail(rest))
             ELSE Normalize(Append(acc, seg), Tail(rest))

\* path.join(targetDir, header.name)
PathJoin(dir, name) == Normalize(<<>>, dir \o name)

\* entries an archive in the store can hold: any writer to the store
\* chooses the names, '..' segments and absolute names (a leading empty
\* segment) included
StoredEntries ==
    { [name |-> <<"a">>, type |-> "directory", content |-> "", mode |-> 493,
       linkname |-> <<>>],
      [name |-> <<"a", "x">>, type |-> "file", content |-> "text A",
       mode |-> 420, linkname |-> <<>>],
      [name |-> <<"l">>, type |-> "symlink", content |-> "", mode |-> 511,
       linkname |-> <<"a", "x">>],
      [name |-> <<"..", "e">>, type |-> "file", content |-> "text E",
       mode |-> 420, linkname |-> <<>>],
      [name |-> <<"", "e">>, type |-> "file", content |-> "text E",
       mode |-> 420, linkname |-> <<>>] }

\* the filesystem calls the entry handler makes for an entry, any of which
\* can fail: the zip handler has a directory branch and a file branch and
\* never calls chmod
FsCalls(h, type) ==
    IF h = "ZipNativeHandler"
    THEN (IF type = "directory" THEN {"mkdir"} ELSE {"mkdir", "write"})
    ELSE CASE type = "directory" -> {"mkdir", "chmod"}
           [] type = "file" -> {"mkdir", "write", "chmod"}
           [] OTHER -> {"mkdir", "symlink"}

\* what the entry handler does when filesystem call 'fail' fails ("none":
\* all succeed): whether the entry exists afterwards, and how the handler
\* ends: "next" (the callback is called without an error, or the entry's
\* promise resolves), "error" (next(err), or the entry's promise rejects),
\* "never" (the rejection of chmod in the async 'finish' listener is
\* handled by nobody and next is not called)
EntryResult(h, type, fail) ==
    IF fail = "none" THEN [created |-> TRUE, ends |-> "next"]
    ELSE IF h = "ZipNativeHandler"
    THEN [created |-> FALSE,
          ends |-> IF type = "directory" THEN "next" ELSE "error"]
    ELSE CASE fail = "write" -> [created |-> FALSE, ends |-> "error"]
           [] fail = "chmod" /\ type = "file" ->
                [created |-> TRUE, ends |-> "never"]
           [] fail = "chmod" -> [created |-> TRUE, ends |-> "next"]
           [] OTHER -> [created |-> FALSE, ends |-> "next"]

\* an unhandled rejection ends the process or is only reported, by the
\* version and the flags of the runtime
UnhandledRejection == {"crashed", "never"}

\* the archive exists and the target directory was created; the streams
\* are piped and no entry was read yet
InitEntries ==
    /\ IdleJob
    /\ IdleAux
    /\ pc = "entries"
    /\ sel = NoSelection
    /\ conn = NoConnection
    /\ \E h \in NativeVariants,
          archive \in SeqsUpTo(StoredEntries, MaxEntries) \ {<<>>} :
          ar = [NoArchive EXCEPT !.handler = h, !.archive = archive,
                                 !.phase = "entries", !.outputFile = TRUE,
                                 !.targetDirBefore = TRUE, !.targetDir = TRUE,
                                 !.settle = "pending"]

ArUnchanged ==
    UNCHANGED <<env, inputs, scan, savers, sel, conn, job, uploaded, store, pc,
                cacheData, matchedKey, cacheHit, idx, latestKey,
                pendingErr, handler, tempFile, tempSize, outputs,
                savedState, failed, warned, saveFailed, restoreOutcome,
                saveOutcome, saveError, restoredData, saveCfg, ops>>

\* the 'entry' listener for the next entry of the archive, with what it
\* starts run to its end
ExtractEntry ==
    /\ pc = "entries"
    /\ ar.settle = "pending"
    /\ ar.done < Len(ar.archive)
    /\ LET e == ar.archive[ar.done + 1]
           entryPath == PathJoin(TargetDir, e.name)
       IN  \E fail \in {"none"} \cup FsCalls(ar.handler, e.type) :
           \E u \in UnhandledRejection :
              LET r == EntryResult(ar.handler, e.type, fail)
              IN  ar' = [ar EXCEPT
                      !.done = @ + 1,
                      !.toolRun = TRUE,
                      !.target =
                          IF r.created
                          THEN {x \in @ : x.path # entryPath} \cup
                               {[Extracted1(ar.handler, e) EXCEPT
                                    !.path = entryPath]}
                          ELSE @,
                      !.lost = IF r.created THEN @ ELSE @ \cup {e.name},
                      !.nextCalls = Append(@, IF r.ends = "never" THEN 0 ELSE 1),
                      !.settle = CASE r.ends = "error" -> "rejected"
                                   [] r.ends = "never" -> u
                                   [] OTHER -> @]
    /\ ArUnchanged

\* the archive is read to its end and every callback was called: 'finish'
\* (tar), 'close' and Promise.all (zip) resolve the promise of extract()
ExtractFinish ==
    /\ pc = "entries"
    /\ ar.settle = "pending"
    /\ ar.done = Len(ar.archive)
    /\ ar' = [ar EXCEPT !.settle = "resolved"]
    /\ ArUnchanged

NextEntries == ExtractEntry \/ ExtractFinish

SpecEntries == InitEntries /\ [][NextEntries]_vars

\* the event loop runs every listener that is ready
SpecEntriesFair == SpecEntries /\ WF_vars(NextEntries)

----------------------------------------------------------------------------
(* compress() of the native handlers as a pipeline of streams: the paths are
   added one await at a time, and only afterwards are the 'error' listeners
   that reject the promise attached *)

\* the streams of the pipeline that can emit 'error'
ErrorSources(h) ==
    IF h = "ZipNativeHandler" THEN {"output", "archiver"}
    ELSE {"output", "gzip", "pack"}

\* the sources whose 'error' rejects the promise once compress() waits
\* for the end of the output: archive.on('error') of the zip handler
\* throws from the listener at any time
RejectingSources(h) ==
    IF h = "ZipNativeHandler" THEN {"output"} ELSE {"output", "gzip", "pack"}

\* what reading a source path meets: the path as it was resolved, a path
\* removed since, or one whose content cannot be read
SourceFaults == {"ok", "missing", "unreadable"}

\* what one turn of the loop over the paths adds to the archive. The tar
\* handler reads the path itself inside try / catch: a missing path adds
\* nothing, an unreadable file adds nothing, an unreadable directory adds
\* its own entry only. The zip handler catches a failing lstat and hands
\* every other path to the archiver.
AddedEntries(h, p, fault) ==
    IF fault = "missing" THEN <<>>
    ELSE IF fault = "ok" THEN EntriesOf(h, p)
    ELSE IF h = "ZipNativeHandler" THEN <<>>
    ELSE IF Lstat(p).type = "directory" THEN <<Entry(h, p, Lstat(p))>>
    ELSE <<>>

\* whether the archiver reports the path later, on 'warning' with a code
\* other than ENOENT or on 'error': both listeners of the zip handler
\* throw
ArchiverThrows(h, fault) == h = "ZipNativeHandler" /\ fault = "unreadable"

\* the streams are created and piped, the output file is opened, no path
\* was added yet
InitPack ==
    /\ IdleJob
    /\ IdleAux
    /\ pc = "pack"
    /\ sel = NoSelection
    /\ conn = NoConnection
    /\ \E h \in NativeVariants, l \in Levels,
          paths \in SeqsUpTo(InputPaths, MaxPaths) \ {<<>>} :
       \E faults \in [DOMAIN paths -> SourceFaults] :
          ar = [NoArchive EXCEPT !.handler = h, !.paths = paths, !.level = l,
                                 !.phase = "adding", !.outputFile = TRUE,
                                 !.settle = "pending", !.faults = faults]

\* one turn of the loop over the paths: await addToTar(...) in the tar
\* handler, await lstat and archive.file / archive.directory in the zip one
AddPath ==
    /\ pc = "pack"
    /\ ar.settle = "pending"
    /\ ar.phase = "adding"
    /\ ar.done < Len(ar.paths)
    /\ LET p == ar.paths[ar.done + 1]
           fault == ar.faults[ar.done + 1]
       IN  ar' = [ar EXCEPT
                    !.done = @ + 1,
                    !.archive = @ \o AddedEntries(ar.handler, p, fault),
                    !.settle = IF ArchiverThrows(ar.handler, fault)
                               THEN "uncaught" ELSE @,
                    !.error = IF ArchiverThrows(ar.handler, fault)
                              THEN "source" ELSE @]
    /\ ArUnchanged

\* after the loop: pack.finalize() and the promise with its listeners in
\* the tar handler; await archive.finalize() in the zip handler, which
\* attaches its listener to the output only once that has resolved
Finalize ==
    /\ pc = "pack"
    /\ ar.settle = "pending"
    /\ \/ /\ ar.phase = "adding"
          /\ ar.done = Len(ar.paths)
          /\ ar' = IF ar.handler = "ZipNativeHandler"
                   THEN [ar EXCEPT !.phase = "finalizing"]
                   ELSE [ar EXCEPT !.phase = "waiting", !.listening = TRUE]
       \/ /\ ar.phase = "finalizing"
          /\ ar' = [ar EXCEPT !.phase = "waiting", !.listening = TRUE]
    /\ ArUnchanged

\* a stream emits 'error': with a rejecting listener attached the promise
\* rejects and the catch block removes the output file and rethrows;
\* without one the event has no listener, or its listener throws, and the
\* error is an uncaught exception
StreamError ==
    /\ pc = "pack"
    /\ ar.settle = "pending"
    /\ \E src \in ErrorSources(ar.handler) :
          IF ar.listening /\ src \in RejectingSources(ar.handler)
          THEN ar' = [ar EXCEPT !.emitted = src, !.settle = "rejected",
                                !.error = src,
                                !.outputFile = UnlinkIfExists(@)]
          ELSE ar' = [ar EXCEPT !.emitted = src, !.settle = "uncaught"]
    /\ ArUnchanged

\* the output emits 'finish' (tar) or 'close' (zip)
OutputFinish ==
    /\ pc = "pack"
    /\ ar.settle = "pending"
    /\ ar.phase = "waiting"
    /\ ar' = [ar EXCEPT !.settle = "resolved"]
    /\ ArUnchanged

NextPack == AddPath \/ Finalize \/ StreamError \/ OutputFinish

SpecPack == InitPack /\ [][NextPack]_vars

----------------------------------------------------------------------------
(* extract() of the native zip handler as events: the parser emits the
   entries, each entry's write ends at some later time, before or after the
   parser's 'close' *)

\* the entries a zip archive holds: files and directories
ZipEntries == {e \in StoredEntries : e.type \in {"directory", "file"}}

\* what the runtime does with a promise that is rejected while it has no
\* handler: it ends the process with an uncaught exception, or it only
\* reports the rejection, by its version and its flags
RejectionModes == {"crashed", "reported"}

\* the state of the promise of extract() once 'close' has attached
\* Promise.all(pendingWrites): rejected as soon as one write has failed,
\* resolved when all have ended, pending otherwise
AllWrites(writes) ==
    IF \E i \in DOMAIN writes : writes[i] = "failed" THEN "rejected"
    ELSE IF \A i \in DOMAIN writes : writes[i] \in {"finished", "swallowed"}
    THEN "resolved"
    ELSE "pending"

\* the archive exists and the target directory was created; no entry was
\* read yet
InitZip ==
    /\ IdleJob
    /\ IdleAux
    /\ pc = "zip"
    /\ sel = NoSelection
    /\ conn = NoConnection
    /\ \E archive \in SeqsUpTo(ZipEntries, MaxEntries) \ {<<>>} :
          ar = [NoArchive EXCEPT
                  !.handler = "ZipNativeHandler", !.archive = archive,
                  !.phase = "zip", !.outputFile = TRUE,
                  !.targetDirBefore = TRUE, !.targetDir = TRUE,
                  !.settle = "pending",
                  !.writes = [i \in DOMAIN archive |-> "unread"]]

\* .on('entry'): the promise of the entry's mkdir or write is pushed to
\* pendingWrites
ZipEntry ==
    /\ pc = "zip"
    /\ ar.settle # "crashed"
    /\ ~ar.closed
    /\ ar.done < Len(ar.archive)
    /\ ar' = [ar EXCEPT !.done = @ + 1, !.writes[ar.done + 1] = "pending"]
    /\ ArUnchanged

\* the mkdir of a directory entry ends (a failure is logged and the promise
\* resolves), or the write of a file entry ends: 'finish' resolves the
\* entry's promise, a failed mkdir of the parent or an 'error' of the write
\* stream rejects it
ZipWriteEnds ==
    /\ pc = "zip"
    /\ ar.settle # "crashed"
    /\ \E i \in DOMAIN ar.writes : \E ok \in BOOLEAN : \E u \in RejectionModes :
         /\ ar.writes[i] = "pending"
         /\ LET type == ar.archive[i].type
                end == IF ok THEN "finished"
                       ELSE IF type = "directory" THEN "swallowed"
                       ELSE "failed"
                writes == [ar.writes EXCEPT ![i] = end]
            IN  ar' = [ar EXCEPT
                         !.writes = writes,
                         !.settle =
                            IF @ # "pending" THEN @
                            ELSE IF ar.closed THEN AllWrites(writes)
                            ELSE IF end = "failed" /\ u = "crashed"
                            THEN "crashed"
                            ELSE @,
                         !.error =
                            IF ar.settle = "pending" /\ ar.closed
                               /\ AllWrites(writes) = "rejected"
                            THEN "Failed to extract ZIP archive" ELSE @]
    /\ ArUnchanged

\* .on('close'): await Promise.all(pendingWrites), then resolve(); a
\* rejection is caught and passed to reject()
ZipClose ==
    /\ pc = "zip"
    /\ ar.settle = "pending"
    /\ ~ar.closed
    /\ ar.done = Len(ar.archive)
    /\ ar' = [ar EXCEPT
                 !.closed = TRUE,
                 !.settle = AllWrites(ar.writes),
                 !.error = IF AllWrites(ar.writes) = "rejected"
                           THEN "Failed to extract ZIP archive" ELSE @]
    /\ ArUnchanged

NextZip == ZipEntry \/ ZipWriteEnds \/ ZipClose

SpecZip == InitZip /\ [][NextZip]_vars

----------------------------------------------------------------------------
(* compress() of the shell handlers that run tar: two calls under way at
   once in one process, their output files in one directory *)

\* the shell handlers that hand tar a list of paths in a file
ListingVariants == {"TarGzipHandler", "GzipHandler"}

\* TarGzipHandler removes the file list in a finally block; GzipHandler
\* removes it after tar succeeded and has no finally block
RemovesListAfterFailure(h) == h = "TarGzipHandler"

\* two calls have been made; neither has run yet
InitShell ==
    /\ IdleJob
    /\ IdleAux
    /\ pc = "shell"
    /\ sel = NoSelection
    /\ conn = NoConnection
    /\ \E hs \in [1..2 -> ListingVariants],
          ps \in [1..2 -> SeqsUpTo(InputPaths, MaxPaths) \ {<<>>}] :
          ar = [NoArchive EXCEPT
                  !.phase = "shell",
                  !.calls = [c \in 1..2 |->
                               [handler |-> hs[c], paths |-> ps[c],
                                at |-> "start", archive |-> <<>>,
                                error |-> ""]]]

\* path.join(path.dirname(outputFile), 'file-list.txt'): the one file list
\* of the output directory, after call c left it as l
WithList(c, l, at) == [ar EXCEPT !.calls[c].at = at, !.fileList = l]

\* fs.writeFileSync(fileListPath, relativePaths.join('\n'))
WriteFileList ==
    /\ pc = "shell"
    /\ \E c \in 1..2 :
         /\ ar.calls[c].at = "start"
         /\ ar' = WithList(c, [exists |-> TRUE, paths |-> ar.calls[c].paths],
                           "listed")
    /\ ArUnchanged

\* the tar process of exec.exec('tar', [..., '-T', fileListPath]) opens the
\* file list: it archives the paths listed there, or exits with an error
\* when the file is not there
TarRun ==
    /\ pc = "shell"
    /\ \E c \in 1..2 :
         /\ ar.calls[c].at = "listed"
         /\ ar' = IF ar.fileList.exists
                  THEN [ar EXCEPT !.calls[c].at = "tarred",
                                  !.calls[c].archive = ar.fileList.paths]
                  ELSE [ar EXCEPT !.calls[c].at = "tarred",
                                  !.calls[c].error = "tar command failed"]
    /\ ArUnchanged

\* if (fs.existsSync(fileListPath)) fs.unlinkSync(fileListPath), and the
\* end of the call
RemoveFileList ==
    /\ pc = "shell"
    /\ \E c \in 1..2 :
         /\ ar.calls[c].at = "tarred"
         /\ ar' = IF ar.calls[c].error = ""
                     \/ RemovesListAfterFailure(ar.calls[c].handler)
                  THEN WithList(c, [exists |-> FALSE, paths |-> <<>>], "done")
                  ELSE [ar EXCEPT !.calls[c].at = "done"]
    /\ ArUnchanged

NextShell == WriteFileList \/ TarRun \/ RemoveFileList

SpecShell == InitShell /\ [][NextShell]_vars

----------------------------------------------------------------------------
(* scanKeys (src/redis/operations.ts) against a server that answers the
   iteration in pages *)

\* the cursors the server hands out before the iteration is complete
Cursors == <<"17", "5", "42", "8">>

\* the keys a page can hold: none, one or two; a later page may repeat a
\* key of an earlier one
PageKeys ==
    { <<>>, << <<"k", "1">> >>, << <<"k", "2">> >>,
      << <<"k", "1">>, <<"k", "2">> >> }

\* the answers of the server to the SCANs of one iteration: the last
\* returns the cursor '0'
ScanPlans ==
    UNION { { [i \in 1..n |->
                 [next |-> IF i = n THEN "0" ELSE Cursors[i], keys |-> f[i]]]
              : f \in [1..n -> PageKeys] } : n \in 1..MaxPages }

\* a scan loop that ends after its first page
ScanStopsAfterFirst(cursor) == FALSE

\* do { ... } while (cursor !== '0')
ScanContinues(cursor) == cursor # "0"

\* scanKeys(redis, pattern) is called: keys = [], cursor = '0'
InitScan ==
    /\ IdleJob
    /\ pc = "scan"
    /\ sel = NoSelection
    /\ ar = NoArchive
    /\ conn = NoConnection
    /\ savers = NoSavers
    /\ \E plan \in ScanPlans :
          scan = [NoScan EXCEPT !.phase = "scanning", !.plan = plan]

\* one turn of the loop: redis.scan(cursor, 'MATCH', pattern, 'COUNT', 100)
\* answers with the next cursor and a page of keys, which are pushed to
\* keys, or it throws and the catch block throws 'Failed to scan Redis keys'
ScanPage ==
    /\ pc = "scan"
    /\ scan.phase = "scanning"
    /\ LET page == scan.plan[Len(scan.sent) + 1]
           keys == scan.keys \o page.keys
       IN  \/ scan' = [scan EXCEPT
                         !.sent = Append(@, scan.cursor),
                         !.cursor = page.next,
                         !.keys = keys,
                         !.phase = IF ScanContinues(page.next) THEN "scanning"
                                   ELSE "returned",
                         !.result = IF ScanContinues(page.next) THEN <<>>
                                    ELSE keys]
           \/ scan' = [scan EXCEPT
                         !.sent = Append(@, scan.cursor),
                         !.phase = "failed",
                         !.error = "Failed to scan Redis keys"]
    /\ UNCHANGED <<env, inputs, savers, sel, ar, conn, job, uploaded, store,
                   pc, cacheData, matchedKey, cacheHit, idx, latestKey,
                   pendingErr, handler, tempFile, tempSize, outputs,
                   savedState, failed, warned, saveFailed, restoreOutcome,
                   saveOutcome, saveError, restoredData, saveCfg, ops>>

NextScan == ScanPage

SpecScan == InitScan /\ [][NextScan]_vars

----------------------------------------------------------------------------
(* Two jobs of one repository that both missed on one key and both run the
   save phase against one store (post.ts, from the upload on) *)

\* the formats of the archives the two jobs made
SaverFormats == {"tar+gzip", "zip"}

\* a write that takes effect only when the key is absent
SetexOnlyIfAbsent(present) == ~present

\* redis.setex(fullKey, ttl, cacheData): SETEX sets the key, present or not
SetexWrites(present) == TRUE

\* both save phases have made their archive of the same key
InitSavers ==
    /\ IdleJob
    /\ pc = "savers"
    /\ sel = NoSelection
    /\ ar = NoArchive
    /\ conn = NoConnection
    /\ scan = NoScan
    /\ \E key \in KeyInputs : \E data \in [1..2 -> SaverFormats] :
          savers = [NoSavers EXCEPT
                      !.phase = "saving",
                      !.key = getCacheKey(key),
                      !.data = [p \in 1..2 |-> ArchiveBlob(data[p])],
                      !.at = <<"setex", "setex">>]

SaversUnchanged ==
    UNCHANGED <<env, inputs, scan, sel, ar, conn, job, uploaded, store,
                pc, cacheData, matchedKey, cacheHit, idx, latestKey,
                pendingErr, handler, tempFile, tempSize, outputs,
                savedState, failed, warned, saveFailed, restoreOutcome,
                saveOutcome, saveError, restoredData, saveCfg, ops>>

\* await redis.setex(fullKey, ttl, cacheData) of one job; when it throws,
\* the catch block of run() warns and the phase ends
SaverSetex ==
    /\ pc = "savers"
    /\ \E p \in 1..2 :
         /\ savers.at[p] = "setex"
         /\ LET present == savers.value # Null
            IN  \/ savers' = [savers EXCEPT
                                !.value = IF SetexWrites(present)
                                          THEN savers.data[p] ELSE @,
                                !.at[p] = "exists",
                                !.log = Append(@, [by |-> p, op |-> "SETEX",
                                                   present |-> present,
                                                   wrote |-> SetexWrites(present)])]
                \/ savers' = [savers EXCEPT
                                !.at[p] = "done",
                                !.warned[p] = TRUE,
                                !.log = Append(@, [by |-> p, op |-> "SETEX-ERR",
                                                   present |-> present,
                                                   wrote |-> FALSE])]
    /\ SaversUnchanged

\* const exists = await redis.exists(fullKey); if (!exists) throw
SaverExists ==
    /\ pc = "savers"
    /\ \E p \in 1..2 :
         /\ savers.at[p] = "exists"
         /\ LET present == savers.value # Null
            IN  savers' = [savers EXCEPT
                             !.at[p] = "done",
                             !.verified[p] = IF Verify(present) = ""
                                             THEN "passed" ELSE "failed",
                             !.warned[p] = Verify(present) # "",
                             !.log = Append(@, [by |-> p, op |-> "EXISTS",
                                                present |-> present,
                                                wrote |-> FALSE])]
    /\ SaversUnchanged

NextSavers == SaverSetex \/ SaverExists

SpecSavers == InitSavers /\ [][NextSavers]_vars

----------------------------------------------------------------------------
(* detectAllTools() over the two phases of a job, and handler.detect() on a
   runner whose commands come and go *)

\* the main phase of a job starts: nothing was saved to the action state,
\* the detection cache of the process is empty
InitDetect ==
    /\ IdleJob
    /\ IdleAux
    /\ pc = "detect"
    /\ ar = NoArchive
    /\ conn = NoConnection
    /\ \E tools \in SUBSET ShellTools :
          sel = [NoSelection EXCEPT !.tools = tools]

SelUnchanged ==
    UNCHANGED <<env, inputs, scan, savers, ar, conn, job, uploaded, store, pc, cacheData,
                matchedKey, cacheHit, idx, latestKey, pendingErr, handler,
                tempFile, tempSize, outputs, savedState, failed, warned,
                saveFailed, restoreOutcome, saveOutcome, saveError,
                restoredData, saveCfg, ops>>

\* one call of detectAllTools(): the state read is the one the process was
\* started with; on a probe the results go to the detection cache and to
\* the action state, where the next phase will read them
DetectAllTools ==
    /\ pc = "detect"
    /\ Len(sel.returned) < MaxCalls
    /\ LET d == detectAllTools(sel.persisted, sel.tools)
       IN  sel' = [sel EXCEPT
                     !.cache = [known |-> ShellTools, available |-> d.available],
                     !.saved = IF d.probed
                               THEN [kind |-> "results", available |-> d.available]
                               ELSE @,
                     !.probes = IF d.probed THEN @ + 1 ELSE @,
                     !.returned = Append(@, d)]
    /\ SelUnchanged

\* the post phase of the job starts in a new process: its action state is
\* what the main phase saved, its detection cache is empty
PostPhase ==
    /\ pc = "detect"
    /\ sel.process = "main"
    /\ sel' = [sel EXCEPT !.process = "post", !.persisted = sel.saved,
                          !.cache = NoSelection.cache]
    /\ SelUnchanged

\* a command is installed on the runner or removed from it
ToolsChange ==
    /\ pc \in {"detect", "probe"}
    /\ \E t \in ShellTools :
          sel' = [sel EXCEPT !.tools = IF t \in @ THEN @ \ {t} ELSE @ \cup {t}]
    /\ SelUnchanged

NextDetect == DetectAllTools \/ PostPhase \/ ToolsChange

SpecDetect == InitDetect /\ [][NextDetect]_vars

\* a process that has called no handler's detect()
InitProbe ==
    /\ IdleJob
    /\ IdleAux
    /\ pc = "probe"
    /\ ar = NoArchive
    /\ conn = NoConnection
    /\ \E tools \in SUBSET ShellTools :
          sel = [NoSelection EXCEPT !.tools = tools]

\* one call of detect() on a registered handler; the answers each handler
\* gave in this process are kept
Detect ==
    /\ pc = "probe"
    /\ \E i \in DOMAIN handlerRegistry :
          sel' = [sel EXCEPT
                    !.detects[i] = @ \cup {detect(handlerRegistry[i], sel.tools)}]
    /\ SelUnchanged

NextProbe == Detect \/ ToolsChange

SpecProbe == InitProbe /\ [][NextProbe]_vars

----------------------------------------------------------------------------
(* createRedisClient (src/redis/client.ts): the retry strategy handed to the
   client library, connect(), PING and the catch block *)

\* retries the strategy grants
MaxRetries == 3

\* milliseconds added to the delay per retry
RetryStep == 200

\* the cap of the delay in milliseconds
MaxDelay == 2000

\* retryStrategy returns null: no further retry
NoRetry == -1

\* Math.min
Min(a, b) == IF a < b THEN a ELSE b

\* retryStrategy(times): the library calls it after a failed attempt with
\* the number of the retry it is about to make, starting at 1
retryStrategy(times) ==
    IF times > MaxRetries THEN NoRetry ELSE Min(times * RetryStep, MaxDelay)

\* what the lower-level error of a failed connect or PING says
Causes == {"ECONNREFUSED", "ENOTFOUND", "NOAUTH", "ETIMEDOUT"}

\* the message of a rejected quit()
QuitError == "quit failed"

\* run()'s catch block: the troubleshooting guidance it prints is chosen by
\* which cause the error message includes
Guidance(error) ==
    IF \E i \in DOMAIN error : error[i] = "ECONNREFUSED" THEN "ECONNREFUSED"
    ELSE IF \E i \in DOMAIN error : error[i] = "ENOTFOUND" THEN "ENOTFOUND"
    ELSE IF \E i \in DOMAIN error : error[i] = "NOAUTH" THEN "NOAUTH"
    ELSE IF \E i \in DOMAIN error : error[i] = "ETIMEDOUT" THEN "ETIMEDOUT"
    ELSE "none"

\* new Redis({... lazyConnect: true}) followed by redis.connect(): the first
\* attempt is under way and createRedisClient awaits connect()
InitConnect ==
    /\ IdleJob
    /\ IdleAux
    /\ pc = "connect"
    /\ sel = NoSelection
    /\ ar = NoArchive
    /\ conn = [NoConnection EXCEPT !.phase = "awaiting", !.link = "connecting"]

ConnUnchanged ==
    UNCHANGED <<env, inputs, scan, savers, sel, ar, job, uploaded, store, pc,
                cacheData, matchedKey, cacheHit, idx, latestKey,
                pendingErr, handler, tempFile, tempSize, outputs,
                savedState, failed, warned, saveFailed, restoreOutcome,
                saveOutcome, saveError, restoredData, saveCfg, ops>>

\* one connection attempt of the library: it succeeds, or it fails and the
\* library asks retryStrategy whether and when to try again
ConnectAttempt ==
    /\ pc = "connect"
    /\ conn.link = "connecting"
    /\ \/ conn' = [conn EXCEPT !.attempts = @ + 1, !.link = "ready"]
       \/ \E c \in Causes :
            LET times == conn.times + 1
                delay == retryStrategy(times)
            IN  conn' = [conn EXCEPT
                    !.attempts = @ + 1,
                    !.times = times,
                    !.causes = Append(@, c),
                    !.link = IF delay = NoRetry THEN "end" ELSE "waiting",
                    !.delays = IF delay = NoRetry THEN @
                               ELSE Append(@, delay)]
    /\ ConnUnchanged

\* the delay retryStrategy returned has passed: the library tries again
Reconnect ==
    /\ pc = "connect"
    /\ conn.link = "waiting"
    /\ conn' = [conn EXCEPT !.link = "connecting"]
    /\ ConnUnchanged

\* await redis.connect() settles: resolved once the link is ready, rejected
\* with the lower-level error once an attempt has failed
ConnectSettled ==
    /\ pc = "connect"
    /\ conn.phase = "awaiting"
    /\ \/ /\ conn.link = "ready"
          /\ conn' = [conn EXCEPT !.phase = "ping"]
       \/ /\ conn.link # "ready"
          /\ conn.causes # <<>>
          /\ conn' = [conn EXCEPT !.phase = "caught",
                                  !.errorMsg = conn.causes[Len(conn.causes)]]
    /\ ConnUnchanged

\* await redis.ping(): PONG and the client is returned, or the error
\* reaches the catch block
Ping ==
    /\ pc = "connect"
    /\ conn.phase = "ping"
    /\ \/ conn' = [conn EXCEPT !.phase = "returned"]
       \/ \E c \in Causes :
            conn' = [conn EXCEPT !.phase = "caught", !.errorMsg = c]
    /\ ConnUnchanged

\* the catch block: await redis.quit(), then throw the new error; a
\* rejected quit() leaves the catch block with its own error
Quit ==
    /\ pc = "connect"
    /\ conn.phase = "caught"
    /\ \/ conn' = [conn EXCEPT
                    !.phase = "thrown", !.closed = TRUE, !.link = "end",
                    !.error = <<"Failed to connect to Redis: ", conn.errorMsg>>]
       \/ conn' = [conn EXCEPT !.phase = "thrown", !.error = <<QuitError>>]
    /\ ConnUnchanged

NextConnect == ConnectAttempt \/ Reconnect \/ ConnectSettled \/ Ping \/ Quit

SpecConnect == InitConnect /\ [][NextConnect]_vars

\* a workflow of two jobs on one key: the first starts on a store holding at
\* most one entry and has at most one restore key
InitRoundTrip ==
    /\ Init
    /\ Len(inputs.restoreKeys) <= 1
    /\ Cardinality(DOMAIN store) <= 1

NextRoundTrip == Next \/ NextJob

SpecRoundTrip == InitRoundTrip /\ [][NextRoundTrip]_vars

----------------------------------------------------------------------------
(* Vocabulary of the properties *)

RestorePcs == {"r_connect", "r_get", "r_scan", "r_fget", "r_select",
               "r_extract", "r_miss", "r_quit"}

SavePcs == {"s_connect", "s_select", "s_compress", "s_check", "s_setex",
            "s_exists", "s_quit"}

\* the restore phase has terminated
RestoreDone == pc \notin RestorePcs

\* the save phase has terminated
SaveDone == pc = "s_done"

\* positions in the history of the operations of a phase with given names
OpsOf(ph, names) ==
    {i \in 1..Len(ops) : ops[i].ph = ph /\ ops[i].op \in names}

Output(name) == IF name \in DOMAIN outputs THEN outputs[name] ELSE <<"unset">>

\* the repository scope of the job, as the runner provides it
RepoScope ==
    IF env.GITHUB_REPOSITORY = <<>> THEN <<"u", "n", "k", "n", "o", "w", "n">>
    ELSE env.GITHUB_REPOSITORY

\* s is exactly r, a colon, and k
IsScoped(s, r, k) ==
    /\ Len(s) = Len(r) + 1 + Len(k)
    /\ \A i \in 1..Len(r) : s[i] = r[i]
    /\ s[Len(r) + 1] = ":"
    /\ \A i \in 1..Len(k) : s[Len(r) + 1 + i] = k[i]

\* the exact GET returned data
ExactGetHit ==
    \E i \in OpsOf("restore", {"GET"}) :
        /\ ops[i].idx = 0
        /\ IsScoped(ops[i].key, RepoScope, inputs.key)
        /\ ops[i].data # Null

\* the exact GET returned no data
ExactGetMissed ==
    \E i \in OpsOf("restore", {"GET"}) : ops[i].idx = 0 /\ ops[i].data = Null

\* extract() returned successfully
Extracted == OpsOf("restore", {"EXTRACT"}) # {}

----------------------------------------------------------------------------
(* C1: the cache-hit output is 'true' exactly when the GET of the scoped
   requested key returned data and the extraction succeeded; then
   cache-matched-key is the requested key and no SCAN was issued. *)
C1_ExactHit ==
    /\ Output("cache-hit") = <<"true">> =>
          /\ ExactGetHit
          /\ Extracted
          /\ Output("cache-matched-key") = inputs.key
          /\ OpsOf("restore", {"SCAN", "SCAN-ERR"}) = {}
    /\ (RestoreDone /\ ExactGetHit /\ Extracted) =>
          Output("cache-hit") = <<"true">>

C1_Witness ==
    /\ RestoreDone
    /\ Len(inputs.restoreKeys) > 0
    /\ Output("cache-hit") = <<"true">>

----------------------------------------------------------------------------
(* C2: on a fallback hit the restored data is the value of the greatest key
   (in string order) among the keys matching the pattern that was scanned,
   cache-hit is 'false', and cache-matched-key is that key without the
   repository scope: scoping it again gives the store key that was read. *)
C2_FallbackHit ==
    restoreOutcome = "HIT-fallback" =>
        \E g \in OpsOf("restore", {"GET"}) :
        \E sc \in OpsOf("restore", {"SCAN"}) :
            /\ ops[g].data # Null
            /\ sc = g - 1
            /\ ops[sc].idx = ops[g].idx
            /\ ops[g].key \in ops[sc].matches
            /\ \A k \in ops[sc].matches : ~LtStr(ops[g].key, k)
            /\ \A j \in OpsOf("restore", {"GET"}) :
                   j < g => ops[j].data = Null
            /\ ops[g].data = Blob(ops[g].key)
            /\ restoredData = ops[g].data
            /\ Output("cache-hit") = <<"false">>
            /\ IsScoped(ops[g].key, RepoScope, Output("cache-matched-key"))

C2_Witness ==
    /\ restoreOutcome = "HIT-fallback"
    /\ \E sc \in OpsOf("restore", {"SCAN"}) :
          /\ ops[sc].idx = 2
          /\ Cardinality(ops[sc].matches) > 1
    /\ IndexOf(Output("cache-matched-key"), ":") > 0

----------------------------------------------------------------------------
(* C3: restore keys are tried in the caller's order and only after the exact
   GET missed; after a GET that returned data nothing more is scanned or
   fetched. *)
C3_PatternOrder ==
    LET scans == OpsOf("restore", {"SCAN", "SCAN-ERR"})
        gets == OpsOf("restore", {"GET", "GET-ERR"})
    IN  /\ \A i \in scans :
              \* the n-th scan is for the n-th restore key
              /\ ops[i].idx = Cardinality({j \in scans : j <= i})
              /\ ops[i].idx <= Len(inputs.restoreKeys)
              /\ LET rk == inputs.restoreKeys[ops[i].idx]
                 IN  IF rk[Len(rk)] = "*"
                     THEN IsScoped(ops[i].key, RepoScope, rk)
                     ELSE IsScoped(ops[i].key, RepoScope, rk \o <<"*">>)
              \* and comes after the exact GET returned nothing
              /\ \E j \in gets :
                    j < i /\ ops[j].idx = 0 /\ ops[j].op = "GET"
                          /\ ops[j].data = Null
        /\ \A i \in gets :
              \* a fallback GET follows the scan of its pattern
              /\ ops[i].idx > 0 => (i - 1) \in scans
                                   /\ ops[i - 1].idx = ops[i].idx
              \* data ends the lookup
              /\ (ops[i].op = "GET" /\ ops[i].data # Null) =>
                    \A j \in scans \cup gets : j <= i

C3_Witness ==
    /\ RestoreDone
    /\ Len(inputs.restoreKeys) = 2
    /\ inputs.restoreKeys[1] # inputs.restoreKeys[2]
    /\ \E i \in OpsOf("restore", {"GET"}) :
          ops[i].idx = 1 /\ ops[i].data # Null
    /\ \E i \in OpsOf("restore", {"SCAN"}) :
          ops[i].idx = 1 /\ Cardinality(ops[i].matches) > 0

----------------------------------------------------------------------------
\* the lookup of restore key number n ended without data
PatternGaveNoData(n) ==
    \/ \E i \in OpsOf("restore", {"SCAN"}) :
          ops[i].idx = n /\ ops[i].matches = {}
    \/ \E i \in OpsOf("restore", {"GET"}) :
          ops[i].idx = n /\ ops[i].data = Null

\* the exact GET and the lookup of every restore key returned no data
AllLookupsEmpty ==
    /\ ExactGetMissed
    /\ \A n \in 1..Len(inputs.restoreKeys) : PatternGaveNoData(n)

\* what the save phase needs, as given to the restore phase
PersistedForSave ==
    /\ DOMAIN savedState = {"cache-key", "cache-paths", "redis-host",
                            "redis-port", "redis-password", "ttl",
                            "compression", "compression-backend"}
    /\ savedState["cache-key"] = inputs.key
    /\ savedState["cache-paths"] = inputs.path
    /\ savedState["redis-host"] = inputs.redisHost
    /\ savedState["redis-port"] = <<inputs.redisPort>>
    /\ savedState["redis-password"] = inputs.redisPassword
    /\ savedState["ttl"] = <<inputs.ttl>>
    /\ savedState["compression"] = <<inputs.compression>>
    /\ savedState["compression-backend"] =
          (IF inputs.compressionBackend = <<>> THEN <<"auto">>
           ELSE inputs.compressionBackend)

(* C4: the restore phase records MISS exactly when the exact GET and the
   lookup of every restore key returned no data; then, and only then, the
   key, paths, host, port, password, ttl, level and backend are persisted
   and the outputs are cache-hit 'false' and an empty cache-matched-key. *)
C4_Miss ==
    /\ RestoreDone => (restoreOutcome = "MISS" <=> AllLookupsEmpty)
    /\ restoreOutcome = "MISS" =>
          /\ PersistedForSave
          /\ Output("cache-hit") = <<"false">>
          /\ Output("cache-matched-key") = EmptyString
    /\ restoreOutcome # "MISS" =>
          /\ DOMAIN savedState = {}
          /\ ~(/\ Output("cache-hit") = <<"false">>
               /\ Output("cache-matched-key") = EmptyString)

C4_Witness ==
    /\ RestoreDone
    /\ restoreOutcome = "MISS"
    /\ Len(inputs.restoreKeys) = 2
    /\ \E i \in OpsOf("restore", {"GET"}) :
          ops[i].idx > 0 /\ ops[i].data = Null

----------------------------------------------------------------------------
(* C5: the save phase connects, compresses or writes to the store only in a
   job whose restore phase recorded MISS; after an exact hit, a fallback
   hit, or a failure that left nothing recorded, it ends at its early
   return without any store or archive operation. *)
C5_SaveOnlyAfterMiss ==
    /\ {i \in 1..Len(ops) : ops[i].ph = "save"} # {} =>
          restoreOutcome = "MISS"
    /\ (SaveDone /\ restoreOutcome # "MISS") =>
          saveOutcome = "skipped-restored"

C5_Witness ==
    /\ SaveDone
    /\ restoreOutcome = "none"
    /\ failed
    /\ saveOutcome = "skipped-restored"
    /\ OpsOf("restore", {"EXTRACT-ERR"}) # {}

----------------------------------------------------------------------------
SaveFailureOps == {"CONNECT-ERR", "SELECT-ERR", "COMPRESS-ERR", "STAT-ERR",
                   "READ-ERR", "SETEX-ERR", "EXISTS-ERR", "QUIT-ERR"}

\* EXISTS answered 0 after a SETEX that succeeded
VerificationMissed ==
    \E i \in OpsOf("save", {"EXISTS"}) :
        /\ ops[i].data = <<"0">>
        /\ \E j \in OpsOf("save", {"SETEX"}) : j < i

SaveFailureOccurred ==
    OpsOf("save", SaveFailureOps) # {} \/ VerificationMissed

(* C6: whatever fails in the save phase, the phase ends without
   core.setFailed and with no error left propagating; the failure has been
   reported with core.warning. *)
C6_SaveNeverFailsJob ==
    /\ ~saveFailed
    /\ SaveDone => pendingErr = ""
    /\ (SaveDone /\ SaveFailureOccurred) =>
          /\ warned
          /\ saveOutcome = "failed"
          /\ saveError # ""
    /\ (SaveDone /\ saveOutcome \in {"skipped-no-files",
                                     "skipped-invalid-paths"}) => warned

C6_Witness ==
    /\ SaveDone
    /\ OpsOf("save", {"SETEX-ERR"}) # {}
    /\ OpsOf("save", {"QUIT-ERR"}) # {}
    /\ warned

----------------------------------------------------------------------------
(* C7: in a job configured with maximum cache size M, an archive larger
   than M is neither read into memory nor written with SETEX. *)
C7_SizeGuard ==
    \A i \in OpsOf("save", {"READ", "READ-ERR", "SETEX", "SETEX-ERR"}) :
        ~(tempSize > inputs.maxCacheSize * MB)

----------------------------------------------------------------------------
(* C8: when EXISTS answers 0 after a successful SETEX the save phase raises
   'Cache verification failed', ends in its catch block and is never
   recorded as saved. *)
C8_VerificationFailure ==
    VerificationMissed =>
        /\ saveOutcome # "saved"
        /\ pc = "s_quit" => pendingErr = "Cache verification failed"
        /\ SaveDone =>
              /\ saveOutcome = "failed"
              /\ warned
              /\ OpsOf("save", {"QUIT"}) # {} =>
                    saveError = "Cache verification failed"

C8_Witness ==
    /\ SaveDone
    /\ VerificationMissed
    /\ saveError = "Cache verification failed"

----------------------------------------------------------------------------
(* C9: once a phase has passed its finally block, and so when it has
   terminated, its temporary archive file does not exist, whichever way
   the phase ended. *)
C9_TempFileRemoved ==
    pc \in {"r_quit", "r_done", "s_quit", "s_done"} => ~tempFile

C9_Witness ==
    /\ SaveDone
    /\ OpsOf("save", {"COMPRESS"}) # {}
    /\ OpsOf("save", {"EXISTS-ERR"}) # {}
    /\ ~tempFile

----------------------------------------------------------------------------
(* C10: with GITHUB_REPOSITORY = r, the scoped form of a key k is exactly
   r, ':' and k; the keys sent to the store are of that form. *)
C10_ScopedKey ==
    env.GITHUB_REPOSITORY # <<>> =>
        /\ \A k \in KeyInputs \cup StoredUserKeys \cup RestoreKeyInputs :
              IsScoped(getCacheKey(k), env.GITHUB_REPOSITORY, k)
        /\ \A i \in OpsOf("restore", {"GET"}) :
              ops[i].idx = 0 =>
                  IsScoped(ops[i].key, env.GITHUB_REPOSITORY, inputs.key)
        /\ \A i \in OpsOf("save", {"SETEX", "EXISTS"}) :
              IsScoped(ops[i].key, env.GITHUB_REPOSITORY, inputs.key)

C10_Witness ==
    /\ env.GITHUB_REPOSITORY # <<>>
    /\ env.GITHUB_RUN_ID # <<>>
    /\ OpsOf("restore", {"GET"}) # {}
    /\ OpsOf("save", {"SETEX"}) # {}

----------------------------------------------------------------------------
\* names of repositories other than the one the job may run for
OtherRepos == { <<"r", "/", "o">>, <<"o", "/", "r", "a">>, <<"o">> }

\* s begins with p
StartsWith(s, p) == Len(s) >= Len(p) /\ SubSeq(s, 1, Len(p)) = p

\* the operations that address one store key
KeyedOps ==
    {i \in 1..Len(ops) :
        ops[i].op \in {"GET", "GET-ERR", "SETEX", "SETEX-ERR", "EXISTS",
                       "EXISTS-ERR"}}

(* C11: every key the restore and save phases pass to GET, SETEX or EXISTS
   begins with the job's repository scope and a colon, and with no other
   repository's scope and colon: jobs of different repositories address
   disjoint sets of store keys. *)
C11_ScopedAccess ==
    \A i \in KeyedOps :
        /\ StartsWith(ops[i].key, RepoScope \o <<":">>)
        /\ \A r \in OtherRepos :
              r # RepoScope => ~StartsWith(ops[i].key, r \o <<":">>)

C11_Witness ==
    /\ NeighbourKey \in DOMAIN store
    /\ ForeignKey \in DOMAIN store
    /\ env.GITHUB_REPOSITORY = <<"o", "/", "r">>
    /\ \E i \in OpsOf("restore", {"SCAN"}) : ops[i].key[Len(ops[i].key) - 1] = "a"
    /\ OpsOf("save", {"EXISTS"}) # {}

----------------------------------------------------------------------------
\* the runner or the store failed the restore phase: a store or file
\* operation failed, or no handler was available
RestoreIoFailed ==
    \/ OpsOf("restore", {"CONNECT-ERR", "GET-ERR", "SCAN-ERR", "SELECT-ERR",
                         "WRITE-ERR"}) # {}
    \/ \E i \in OpsOf("restore", {"EXTRACT-ERR"}) : ops[i].data = Null

\* a later job has finished its restore phase while the entry that the
\* earlier save verified was still stored, and neither the runner nor the
\* store failed that restore phase
LaterRestoreOfUpload ==
    /\ job = "later"
    /\ RestoreDone
    /\ uploaded.by = "first"
    /\ ~RestoreIoFailed

(* C12 as stated: after a save for key K verified its upload, a later
   restore phase for the same key and repository that runs while the entry
   is still stored ends in HIT-exact and extracts the uploaded bytes. *)
C12_RoundTrip ==
    LaterRestoreOfUpload =>
        /\ restoreOutcome = "HIT-exact"
        /\ restoredData = uploaded.data

(* C12, amended: the same, for a later restore phase whose selected handler
   reads the byte format the archive was written in. *)
C12_RoundTripSameFormat ==
    (/\ LaterRestoreOfUpload
     /\ handler # NoHandler
     /\ ArchiveFamily(handler.format) = BlobFamily(uploaded.data)) =>
        /\ restoreOutcome = "HIT-exact"
        /\ restoredData = uploaded.data
        /\ Output("cache-hit") = <<"true">>
        /\ OpsOf("restore", {"SCAN"}) = {}

C12_Witness ==
    /\ LaterRestoreOfUpload
    /\ uploaded.data = ArchiveBlob("zip")
    /\ restoreOutcome = "HIT-exact"
    /\ restoredData = uploaded.data

----------------------------------------------------------------------------
\* the results of the selections the process made so far
Calls == {sel.calls[i] : i \in 1..Len(sel.calls)}

\* the registered handlers, as a set
Registered == {handlerRegistry[i] : i \in 1..Len(handlerRegistry)}

\* handler h may be returned under the backend preference
AllowedBy(h, backend) ==
    /\ backend = <<"native">> => h.native
    /\ backend = <<"shell">> => ~h.native

\* handler h can run on the process's runner
RunsHere(h) == h.native \/ h.command \in sel.tools

(* C13: under 'auto' and 'native' every selection returns a handler,
   whatever shell tools are installed and whatever detection state was
   persisted; under 'shell' a selection fails exactly when none of tar, zip
   and gzip is installed, and then with the error 'No shell compression
   tools available'. *)
C13_SelectionFailure ==
    \A r \in Calls :
        /\ sel.backend \in {<<"auto">>, <<"native">>} => r.ok
        /\ sel.backend = <<"shell">> =>
              /\ ~r.ok <=> (sel.tools = {})
              /\ ~r.ok => r.error = "No shell compression tools available"

C13_Witness ==
    /\ sel.backend = <<"shell">>
    /\ sel.tools = {}
    /\ sel.persisted = [kind |-> "results", available |-> {"tar"}]
    /\ \E r \in Calls : r.error = "No shell compression tools available"

----------------------------------------------------------------------------
(* C14: a returned handler is allowed by the backend preference, can run on
   the runner, and no allowed handler that can run there has a higher
   priority; under 'auto' it is the native tar+gzip handler, of priority
   200, whatever shell tools are installed. *)
C14_BestHandler ==
    \A r \in Calls :
        r.ok =>
            /\ r.handler \in Registered
            /\ AllowedBy(r.handler, sel.backend)
            /\ RunsHere(r.handler)
            /\ \A h \in Registered :
                  (AllowedBy(h, sel.backend) /\ RunsHere(h)) =>
                      h.priority <= r.handler.priority
            /\ sel.backend = <<"auto">> =>
                  /\ r.handler.name = "TarGzipNativeHandler"
                  /\ r.handler.priority = 200

C14_Witness ==
    /\ sel.backend = <<"shell">>
    /\ sel.tools = {"zip", "gzip"}
    /\ \E r \in Calls : r.ok /\ r.handler.name = "ZipHandler"

----------------------------------------------------------------------------
(* C15: the selections one process makes with one backend preference all
   return the same handler type (or all fail), although the first of them
   fills the detection cache and saves the detection state; every handler
   returned is one whose detect() answers true on the runner. *)
C15_Deterministic ==
    /\ \A r1, r2 \in Calls :
          r1.ok = r2.ok /\ r1.handler.name = r2.handler.name
    /\ \A r \in Calls : r.ok => RunsHere(r.handler)

C15_Witness ==
    /\ Len(sel.calls) = MaxCalls
    /\ sel.backend = <<"shell">>
    /\ sel.tools = {"gzip"}
    /\ sel.persisted.kind = "none"
    /\ sel.saved.kind = "results"
    /\ \A r \in Calls : r.handler.name = "GzipHandler"

----------------------------------------------------------------------------
\* what the target directory must hold for file e below input path p: the
\* same type, content and mode under the name the handler archived it as;
\* for the zip handlers a link is expected as a regular file with the
\* content of its target, and for the native zip handler, which does not
\* restore modes, any mode
Recreated(h, p, e, x) ==
    /\ x.path = NameIn(h, p, e.path)
    /\ IF e.type = "symlink" /\ h \in ZipVariants
       THEN x.type = "file" /\ x.content = Lstat(e.linkname).content
       ELSE /\ x.type = e.type
            /\ x.content = e.content
            /\ x.linkname = e.linkname
            /\ h # "ZipNativeHandler" => x.mode = e.mode

(* C16: for every handler variant, after compress and a successful extract
   into the target directory, every file, directory and link below every
   input path is found there with its content and (where restored) its
   mode, and the target directory holds nothing else. *)
C16_RoundTrip ==
    ar.phase = "extracted" =>
        /\ \A i \in 1..Len(ar.paths) : \A e \in Subtree(ar.paths[i]) :
              \E x \in ar.target : Recreated(ar.handler, ar.paths[i], e, x)
        /\ \A x \in ar.target :
              \E i \in 1..Len(ar.paths) : \E e \in Subtree(ar.paths[i]) :
                  x.path = NameIn(ar.handler, ar.paths[i], e.path)

----------------------------------------------------------------------------
(* C17: for every handler variant, extract on an archive path where no file
   exists fails with 'Archive file not found' before anything else is done:
   no decompression is started, the target directory is not created and
   nothing is written. *)
C17_MissingArchive ==
    (ar.phase \in {"extracted", "extract-failed"} /\ ~ar.outputFile) =>
        /\ ar.phase = "extract-failed"
        /\ ar.error = "Archive file not found"
        /\ ~ar.toolRun
        /\ ar.targetDir = ar.targetDirBefore
        /\ ar.target = {}

C17_Witness ==
    /\ ar.handler = "TarGzipNativeHandler"
    /\ ar.phase = "extract-failed"
    /\ ~ar.outputFile
    /\ ~ar.targetDirBefore
    /\ ar.error = "Archive file not found"

----------------------------------------------------------------------------
(* C18: for every handler variant, when compress ends with an error the
   output file does not exist afterwards. *)
C18_NoPartialOutput ==
    ar.phase = "compress-failed" => ~ar.outputFile


(* C19: connection establishment makes at most 3 attempts, the delay before
   retry n is min(n * 200 ms, 2000 ms), and after the last (third) attempt
   no retry is scheduled *)
C19_ThreeAttempts ==
    /\ conn.attempts <= 3
    /\ \A n \in DOMAIN conn.delays : conn.delays[n] = Min(n * 200, 2000)
    /\ conn.link = "waiting" => conn.attempts < 3

(* C20: when connecting fails, createRedisClient has closed the partial
   connection and the error it raised carries the message of the underlying
   cause, so that the guidance for refused / DNS / auth / timeout can be
   chosen from it, also when closing the connection failed *)
C20_CauseSurvives ==
    conn.phase = "thrown" =>
        /\ conn.closed
        /\ Guidance(conn.error) = conn.errorMsg


(* C21: within one job detectAllTools probes the shell tools at most once:
   once a call has stored its results, every later call, in the same
   process or in the post phase, returns the stored results without
   probing *)
C21_ProbedOnce ==
    /\ sel.probes <= 1
    /\ \A i, j \in DOMAIN sel.returned :
          (i < j /\ sel.returned[i].probed) =>
              /\ ~sel.returned[j].probed
              /\ sel.returned[j].available = sel.returned[i].available

(* C22: all calls of detect() on one handler in one process return the same
   boolean, also when the handler's command is installed or removed between
   the calls *)
C22_DetectIdempotent ==
    \A i \in DOMAIN sel.detects : Cardinality(sel.detects[i]) <= 1


(* C23: for each path the save phase archived with a native handler, the
   restore phase, extracting into the same working directory, recreates
   every file below that path at the same path with the same content, also
   when the path is not a direct child of the working directory *)
C23_SamePath ==
    (ar.phase = "extracted" /\ ar.handler \in NativeVariants) =>
        \A i \in 1..Len(ar.paths) : \A e \in Subtree(ar.paths[i]) :
            e.type = "file" =>
                \E x \in ar.target :
                    x.path = e.path /\ x.content = e.content


(* C24: whatever entries the archive fetched from the store holds, names
   with '..' segments and absolute names included, extract of a native
   handler creates or overwrites files, directories and links only inside
   the target directory *)
C24_InsideTarget ==
    ar.phase = "entries" =>
        \A x \in ar.target :
            IsPrefix(TargetDir, x.path) /\ x.path # TargetDir

(* C28: when extract of a native handler returns success, every entry of
   the archive exists under the target directory, and no entry failed to
   be created *)
C28_AllEntriesCreated ==
    (ar.phase = "entries" /\ ar.settle = "resolved") =>
        /\ ar.lost = {}
        /\ \A i \in DOMAIN ar.archive :
              \E x \in ar.target :
                  x.path = PathJoin(TargetDir, ar.archive[i].name)

(* C30: extract of the native tar+gzip handler always ends, resolving or
   rejecting, whatever the archive holds and whichever filesystem calls
   fail, and the callback of every entry handled is called exactly once *)
C30_ExtractTerminates ==
    (ar.handler = "TarGzipNativeHandler" /\ ar.phase = "entries") =>
        /\ <>(ar.settle \in {"resolved", "rejected"})
        /\ [](\A i \in DOMAIN ar.nextCalls : ar.nextCalls[i] = 1)


(* C25: in one compress call of a native handler, distinct input paths are
   archived under distinct entry names, so that the extracted content of
   one input is not replaced by or merged with that of another *)
C25_DistinctNames ==
    (ar.phase \in {"compressed", "extracted"} /\ ar.handler \in NativeVariants) =>
        \A i, j \in 1..Len(ar.paths) :
            ar.paths[i] # ar.paths[j] =>
                \A k, l \in DOMAIN ar.archive :
                    (/\ ar.archive[k] = Entry(ar.handler, ar.paths[i], Lstat(ar.paths[i]))
                     /\ ar.archive[l] = Entry(ar.handler, ar.paths[j], Lstat(ar.paths[j])))
                        => ar.archive[k].name # ar.archive[l].name


(* C26: a restore phase run with the backend preference of the save phase
   that stored the artifact extracts it with a handler of the format the
   artifact was written in, whatever shell tools the saving and the
   restoring runner have *)
C26_SameFormat ==
    (/\ job = "later"
     /\ pc \in RestorePcs
     /\ uploaded.by = "first"
     /\ cacheData = uploaded.data
     /\ handler # NoHandler
     /\ RestoreBackend = (IF uploaded.backend = EmptyString THEN <<"auto">>
                          ELSE uploaded.backend)) =>
        ArchiveFamily(handler.format) = BlobFamily(uploaded.data)


(* C27: a restore run that has ended is in exactly one of HIT-exact,
   HIT-fallback, MISS and FATAL; it is FATAL, the job marked failed, exactly
   when connecting, a store command, the handler selection or the
   extraction raised an error; in FATAL no output is set and no state is
   persisted for the save phase *)
C27_TerminalStates ==
    (pc = "r_done") =>
        /\ failed <=> restoreOutcome = "none"
        /\ ~failed => restoreOutcome \in {"HIT-exact", "HIT-fallback", "MISS"}
        /\ failed <=>
              OpsOf("restore", {"CONNECT-ERR", "GET-ERR", "SCAN-ERR",
                                "SELECT-ERR", "WRITE-ERR", "EXTRACT-ERR",
                                "QUIT-ERR"}) # {}
        /\ failed => (outputs = <<>> /\ savedState = <<>>)


(* C29: in compress of a native handler, an error emitted by the output
   stream or by the archiver, at whatever point of the call, makes the
   promise of compress reject with that error; it is never an uncaught
   exception and the promise is not left pending *)
C29_StreamErrorRejects ==
    (ar.phase \in {"adding", "finalizing", "waiting"} /\ ar.emitted # "none") =>
        /\ ar.settle = "rejected"
        /\ ar.error = ar.emitted


(* C31: a source path that is missing or unreadable when a native handler
   archives it does not abort compress: unless a stream fails, compress
   succeeds, and the archive holds the entries of all the other paths *)
C31_SourceFaultTolerated ==
    (ar.phase \in {"adding", "finalizing", "waiting"} /\ ar.emitted = "none") =>
        /\ ar.settle \in {"pending", "resolved"}
        /\ ar.settle = "resolved" =>
              \A i \in DOMAIN ar.paths :
                  ar.faults[i] = "ok" =>
                      \A k \in DOMAIN EntriesOf(ar.handler, ar.paths[i]) :
                          \E n \in DOMAIN ar.archive :
                              ar.archive[n] = EntriesOf(ar.handler, ar.paths[i])[k]


(* C32: scanKeys sends its first SCAN with cursor '0' and every further
   SCAN with the cursor the previous one returned; it goes on until the
   returned cursor is '0', and then returns every key of every page; when a
   SCAN fails it fails with 'Failed to scan Redis keys' and returns no
   list *)
C32_ScanAllPages ==
    scan.phase # "idle" =>
        /\ \A i \in DOMAIN scan.sent :
              scan.sent[i] = IF i = 1 THEN "0" ELSE scan.plan[i - 1].next
        /\ (scan.phase = "scanning" /\ scan.sent # <<>>) =>
              scan.plan[Len(scan.sent)].next # "0"
        /\ scan.phase = "returned" =>
              /\ scan.plan[Len(scan.sent)].next = "0"
              /\ \A i \in DOMAIN scan.plan :
                    \A k \in DOMAIN scan.plan[i].keys :
                        \E n \in DOMAIN scan.result :
                            scan.result[n] = scan.plan[i].keys[k]
        /\ scan.phase = "failed" =>
              /\ scan.result = <<>>
              /\ scan.error = "Failed to scan Redis keys"

C32_Witness ==
    /\ scan.phase = "returned"
    /\ Len(scan.plan) = 3
    /\ scan.sent = <<"0", "17", "5">>
    /\ scan.plan[1].keys = << <<"k", "1">> >>
    /\ scan.plan[2].keys = <<>>
    /\ scan.plan[3].keys = << <<"k", "2">> >>
    /\ scan.result = << <<"k", "1">>, <<"k", "2">> >>


(* C33: a save phase that has a key and paths to save but resolves no path,
   or finds that none of the resolved paths exists, ends without an error
   and without connecting to the store, selecting a handler, creating an
   archive or writing a key *)
C33_NoPathsNoSave ==
    (/\ pc \in SavePcs \cup {"s_done"}
     /\ ~ShouldSkipSave(saveCfg.key, saveCfg.pathsInput)
     /\ saveCfg.validPaths = 0) =>
        /\ pc = "s_done"
        /\ saveOutcome \in {"skipped-no-files", "skipped-invalid-paths"}
        /\ ~saveFailed
        /\ saveError = ""
        /\ \A i \in DOMAIN ops : ops[i].ph # "save"
        /\ ~tempFile

C33_Witness ==
    /\ pc = "s_done"
    /\ saveOutcome = "skipped-invalid-paths"
    /\ saveCfg.resolvedPaths = 1
    /\ saveCfg.validPaths = 0
    /\ ops # <<>>

(* C34: in the restore phase and in the save phase, every store connection
   that was opened successfully has had QUIT issued on it by the time the
   phase has ended, whichever way the phase ended: normally, by the return
   of the size guard, or by a failure of the handler selection, of compress,
   of extract or of a store command; QUIT is the last store operation of the
   phase *)
PhaseEnded(ph) ==
    IF ph = "restore" THEN pc \notin RestorePcs ELSE pc = "s_done"

C34_ConnectionClosed ==
    \A ph \in {"restore", "save"} :
        PhaseEnded(ph) =>
            \A i \in OpsOf(ph, {"CONNECT"}) :
                /\ \E j \in OpsOf(ph, {"QUIT", "QUIT-ERR"}) :
                      /\ j > i
                      /\ \A l \in DOMAIN ops :
                            (l > j) => ops[l].ph # ph
                /\ Cardinality(OpsOf(ph, {"QUIT", "QUIT-ERR"})) = 1

\* a save phase that connected, whose compress failed, and that has ended
\* after a restore phase that connected too
C34_Witness ==
    /\ pc = "s_done"
    /\ OpsOf("save", {"CONNECT"}) # {}
    /\ OpsOf("save", {"COMPRESS-ERR"}) # {}
    /\ OpsOf("save", {"QUIT"}) # {}
    /\ OpsOf("restore", {"CONNECT"}) # {}
    /\ OpsOf("restore", {"QUIT"}) # {}

(* C35: when the greatest key matching a restore key pattern is gone from
   the store between the SCAN and the GET, the restore phase issues no other
   GET for that pattern; the next store operation is the SCAN of the next
   pattern, or, after the last pattern, the closing QUIT; and the phase
   records MISS when no lookup returned data *)
EmptyFallbackGets ==
    {g \in OpsOf("restore", {"GET"}) :
        /\ ops[g].idx >= 1
        /\ ops[g].data = Null
        /\ g > 1
        /\ ops[g - 1].op = "SCAN"
        /\ ops[g].key \in ops[g - 1].matches}

C35_ExpiredMatch ==
    \A g \in EmptyFallbackGets :
        /\ \A h \in OpsOf("restore", {"GET", "GET-ERR"}) :
              ops[h].idx = ops[g].idx => h = g
        /\ (Len(ops) > g /\ ops[g + 1].ph = "restore") =>
              IF ops[g].idx < Len(inputs.restoreKeys)
              THEN /\ ops[g + 1].op \in {"SCAN", "SCAN-ERR"}
                   /\ ops[g + 1].idx = ops[g].idx + 1
              ELSE ops[g + 1].op \in {"QUIT", "QUIT-ERR"}
        /\ (RestoreDone /\ AllLookupsEmpty) => restoreOutcome = "MISS"

\* the first pattern matched two keys, the greatest was gone at the GET, the
\* second pattern was scanned, and the phase ended in MISS
C35_Witness ==
    /\ RestoreDone
    /\ restoreOutcome = "MISS"
    /\ \E g \in EmptyFallbackGets :
          /\ ops[g].idx = 1
          /\ Cardinality(ops[g - 1].matches) = 2
          /\ Len(ops) > g
          /\ ops[g + 1].op = "SCAN"
          /\ ops[g + 1].idx = 2

(* C36: when two jobs of one repository both missed on a key and both run
   the save phase, neither asks the store whether the key exists before it
   writes, and each SETEX takes effect whether or not the key is present;
   once both have finished after a successful SETEX each, the key holds the
   archive of the job whose SETEX came later, and both verifications have
   passed without a warning *)
SetexOf(p) ==
    {i \in DOMAIN savers.log :
        savers.log[i].by = p /\ savers.log[i].op = "SETEX"}

C36_LastWriterWins ==
    (savers.phase = "saving") =>
        /\ \A i \in DOMAIN savers.log :
              /\ savers.log[i].op = "EXISTS" =>
                    \E j \in SetexOf(savers.log[i].by) : j < i
              /\ savers.log[i].op = "SETEX" => savers.log[i].wrote
        /\ (/\ savers.at = <<"done", "done">>
            /\ SetexOf(1) # {}
            /\ SetexOf(2) # {}) =>
              /\ \E i \in SetexOf(1) \cup SetexOf(2) :
                    /\ \A j \in SetexOf(1) \cup SetexOf(2) : j <= i
                    /\ savers.value = savers.data[savers.log[i].by]
              /\ savers.verified = <<"passed", "passed">>
              /\ savers.warned = <<FALSE, FALSE>>

\* both jobs wrote before either verified, the second over the archive of
\* the first, which was of another format
C36_Witness ==
    /\ savers.at = <<"done", "done">>
    /\ savers.data[1] # savers.data[2]
    /\ Len(savers.log) = 4
    /\ savers.log[1].op = "SETEX"
    /\ savers.log[2].op = "SETEX"
    /\ savers.log[2].present
    /\ savers.log[2].by = 1
    /\ savers.value = savers.data[1]

(* C37: two compress calls of shell handlers that run at the same time with
   different output files in one directory do not interfere: each call ends
   without an error and its archive holds exactly the paths passed to it *)
C37_NoInterference ==
    (ar.phase = "shell") =>
        \A c \in DOMAIN ar.calls :
            ar.calls[c].at = "done" =>
                /\ ar.calls[c].error = ""
                /\ ar.calls[c].archive = ar.calls[c].paths

(* C38: extract of the native zip handler resolves only when the write of
   every entry has ended, and, once it has ended, it has rejected with
   'Failed to extract ZIP archive' if the write of a file entry failed,
   whether that write ended before or after the parser's 'close' *)
ZipEnded ==
    \/ ar.settle = "crashed"
    \/ /\ ar.closed
       /\ \A i \in DOMAIN ar.writes : ar.writes[i] \notin {"unread", "pending"}

C38_AllWritesAwaited ==
    (ar.phase = "zip") =>
        /\ ar.settle = "resolved" =>
              \A i \in DOMAIN ar.writes :
                  ar.writes[i] \in {"finished", "swallowed"}
        /\ (ZipEnded /\ \E i \in DOMAIN ar.writes : ar.writes[i] = "failed") =>
              /\ ar.settle = "rejected"
              /\ ar.error = "Failed to extract ZIP archive"

\* every order in which the handlers could have been registered
RegistrationOrders == Perms(Registered)

\* every selection the process made has the result it would have under any
\* other registration order
OrderIndependent ==
    \A i \in DOMAIN sel.calls : \A r \in RegistrationOrders :
        selectFrom(r, sel.backend, sel.tools) = sel.calls[i]

(* C39 as stated: the priorities of the registered handler variants are
   pairwise distinct, and the result of a selection does not depend on the
   registration order *)
C39_DistinctPriorities ==
    (pc = "select") =>
        /\ \A x, y \in Registered : x # y => x.priority # y.priority
        /\ OrderIndependent

(* C39, amended: the priorities are pairwise distinct among the native
   variants and among the shell variants, and every shell variant ranks
   below the first two native variants (native gzip and shell tar+gzip
   share the priority 100); the result of a selection does not depend on
   the registration order *)
C39_DistinctWithinBackend ==
    (pc = "select") =>
        /\ \A x, y \in Registered :
              (x # y /\ x.native = y.native) => x.priority # y.priority
        /\ \A x, y \in Registered :
              (x # y /\ x.priority = y.priority) =>
                  \E z \in Registered : z.native /\ z.priority > x.priority
        /\ OrderIndependent

\* two selections were made among the shell handlers with tar and zip both
\* installed, and tar+gzip was returned
C39_Witness ==
    /\ pc = "select"
    /\ sel.backend = <<"shell">>
    /\ {"tar", "zip"} \subseteq sel.tools
    /\ Len(sel.calls) = 2
    /\ sel.calls[2].ok
    /\ sel.calls[2].handler.name = "TarGzipHandler"

====
